---- MODULE Spec2Model ----
(***************************************************************************)
(* Model of the embedded-literal data store of app.py: the declaration     *)
(* locator and bracket-balance scanner (extract_ts_variable_value), the    *)
(* reader (parse_ts_data), the writer (write_ts_data) and the edit         *)
(* handlers built on them.                                                 *)
(*                                                                         *)
(* A document is a sequence of symbols.  Every character the scanner, the  *)
(* literal grammar or the writer distinguishes is a symbol of its own      *)
(* ("[", "\"", "\\", "/", "\n", ...); the fixed text "export const " of    *)
(* the declaration pattern, an identifier and a run of four blanks of      *)
(* indentation are one symbol each.  Python's 0-based index i is position  *)
(* i + 1 here.  A value computed once and read several times in the source *)
(* is passed on as the argument of a continuation operator.                *)
(***************************************************************************)
EXTENDS Integers, Sequences, FiniteSets, TLC

VARIABLES
    content,            \* extract_ts_variable_value: the document text
    pc,                 \* position in extract_ts_variable_value
    cursor,             \* index of the opening bracket (0: not yet located)
    i,                  \* loop index of the balance scan
    stack,              \* stack of open brackets
    in_string,
    string_char,
    in_comment,
    in_block_comment,
    result,             \* the pair returned by extract_ts_variable_value
    disk,               \* src/data/friends.ts: [exists, text]
    f_data,             \* gr.State f_data: the session's collection
    f_tail,             \* gr.State f_tail: the session's tail
    f_msg,              \* the status message shown last
    tail0,              \* history: the tail of the document before any edit
    written,            \* history: the collection write_ts_data wrote last
    tab,                \* the gr.TabItem whose buttons are clicked
    tab_file,           \* the data file of that tab: [exists, text]
    tab_data,           \* its gr.State collection (p_data, ti_data, s_data, dev_data, d_data)
    tab_tail,           \* its gr.State tail (p_tail, ti_tail, s_tail, dev_tail, d_tail)
    tab_msg,            \* the status message shown last in that tab
    unique0,            \* history: the collection of the session's first document
                        \* had pairwise distinct identifying values
    op,                 \* history: the handler that ran last
    raised,             \* history: that handler ended in an exception
    wrote,              \* history: what its call of write_ts_data did
    ext,                \* history: an edit of the file made outside the session
    io,                 \* the file system: what open(path, 'w') and write do
    folder,             \* public/images/diary: the names that exist
    imgs,               \* save_img_to_diary: the uploads not yet copied
    dest,               \* save_img_to_diary: dest
    img_paths,          \* save_img_to_diary: img_paths
    img_pc              \* position in save_img_to_diary

scanVars == <<content, pc, cursor, i, stack, in_string, string_char,
              in_comment, in_block_comment, result>>
sessVars == <<disk, f_data, f_tail, f_msg>>
histVars == <<tail0, written>>
tabVars == <<tab, tab_file, tab_data, tab_tail, tab_msg, unique0>>

callVars == <<op, raised, wrote, ext>>
imgVars == <<folder, imgs, dest, img_paths, img_pc>>
restVars == <<callVars, io, imgVars>>

vars == <<scanVars, sessVars, histVars, tabVars, restVars>>

-----------------------------------------------------------------------------
(* Bounds *)

MaxScanLen == 4
MaxRecords == 2
MaxId == 3

-----------------------------------------------------------------------------
(* Symbols *)

EC == "export const "
NoneVal == "None"
BS == "\\"
NL == "\n"
DQ == "\""
SQ == "'"
BQ == "BACKTICK"    \* the backtick character (SANY cannot lex it inside a string)
Indent == "    "

Range(s) == {s[x] : x \in DOMAIN s}

Quotes == {DQ, SQ, BQ}
Openers == {"[", "{"}
Closers == {"]", "}"}
Whitespace == {" ", NL, Indent}
DigitSyms == <<"0", "1", "2", "3", "4", "5", "6", "7", "8", "9">>
Digits == Range(DigitSyms)
\* letters, and identifiers written as one symbol
Letters == {"a", "b", "c", "d", "k", "m", "n", "O", "T", "id", "title",
            "friendsData", "FriendItem", "import", "interface",
            "name", "content", "category",
            "projectsData", "Project", "timelineData", "TimelineItem",
            "skillsData", "Skill", "devicesData", "DeviceCategory",
            "diaryData", "DiaryItem"}
WordSyms == Letters \cup Digits

\* the character class [\w\[\]\|\s<>\.] of the type annotation
AnnotationClass == WordSyms \cup Whitespace \cup {"[", "]", "|", "<", ">", "."}

SeqsUpTo(S, n) == UNION {[1..k -> S] : k \in 0..n}

Suffix(s, from) == SubSeq(s, from, Len(s))

At(s, p) == IF p >= 1 /\ p <= Len(s) THEN s[p] ELSE ""

-----------------------------------------------------------------------------
(* extract_ts_variable_value, step 1: the declaration pattern *)

RECURSIVE RunEnd(_, _, _)
\* first position >= p whose symbol is not in class (Len + 1 if none)
RunEnd(s, p, class) ==
    IF p <= Len(s) /\ s[p] \in class THEN RunEnd(s, p + 1, class) ELSE p

\* "=\s*" at position eq: match.end() as a position, 0 if there is no "="
MatchEquals(s, eq) ==
    IF At(s, eq) = "=" THEN RunEnd(s, eq + 1, Whitespace) ELSE 0

\* "(?::\s*[\w\[\]\|\s<>\.]+)?\s*=\s*" at q1, the first position after the
\* name that is not white space.  The class holds white space and no "=",
\* so the annotation runs from the colon to the first symbol outside the
\* class, r, and must not be empty.
MatchAnnotation(s, q1, r) ==
    IF At(s, q1) = ":" THEN (IF r > q1 + 1 THEN MatchEquals(s, r) ELSE 0)
    ELSE MatchEquals(s, q1)

MatchAfterName(s, q1) == MatchAnnotation(s, q1, RunEnd(s, q1 + 1, AnnotationClass))

\* the pattern without its "export const " prefix
MatchEndAtBare(s, p, var_name) ==
    IF p + Len(var_name) - 1 <= Len(s)
       /\ SubSeq(s, p, p + Len(var_name) - 1) = var_name
    THEN MatchAfterName(s, RunEnd(s, p + Len(var_name), Whitespace))
    ELSE 0

\* the pattern with "\w*" after the name
MatchEndAtPrefix(s, p, var_name) ==
    IF p + Len(var_name) <= Len(s) /\ s[p] = EC
       /\ SubSeq(s, p + 1, p + Len(var_name)) = var_name
    THEN MatchAfterName(s, RunEnd(s, RunEnd(s, p + 1 + Len(var_name), WordSyms),
                                  Whitespace))
    ELSE 0

\* re.match of the pattern at position p: 0 if it does not match there,
\* otherwise match.end() as a position (the first position after the match)
MatchEndAt(s, p, var_name) ==
    IF p + Len(var_name) <= Len(s) /\ s[p] = EC
       /\ SubSeq(s, p + 1, p + Len(var_name)) = var_name
    THEN MatchAfterName(s, RunEnd(s, p + 1 + Len(var_name), Whitespace))
    ELSE 0

\* the end of the leftmost match among ends, a set of <<start, end>>
LeftmostEnd(ends) ==
    IF ends = {} THEN 0
    ELSE (CHOOSE e \in ends : \A f \in ends : e[1] <= f[1])[2]

\* re.search(pattern, content): match.end() as a position; 0 for no match
SearchEnd(s, var_name) ==
    LeftmostEnd({e \in {<<p, MatchEndAt(s, p, var_name)>> : p \in 1..Len(s)} : e[2] # 0})

\* step 2: the first "[" or "{" at or after start_idx
FindCursor(s, start_idx) == RunEnd(s, start_idx, {c \in Range(s) : c \notin Openers})

-----------------------------------------------------------------------------
(* step 3: one iteration of the balance loop *)

\* a failure that hands back an empty text instead of the document
NotFoundEmpty(s) == [ok |-> FALSE, data_str |-> <<>>, tail_code |-> <<>>]

\* return None, content
NotFoundResult(s) == [ok |-> FALSE, data_str |-> <<>>, tail_code |-> s]

ScanState(ii, st, ins, sc, inc, inb) ==
    [i |-> ii, stack |-> st, in_string |-> ins, string_char |-> sc,
     in_comment |-> inc, in_block_comment |-> inb, returned |-> FALSE]

\* the string branch without the look at the previous character
StringBranchNoEscape(s, st) ==
    IF s[st.i] \in Quotes
    THEN IF ~st.in_string
         THEN [st EXCEPT !.in_string = TRUE, !.string_char = s[st.i]]
         ELSE IF s[st.i] = st.string_char
              THEN [st EXCEPT !.in_string = FALSE, !.string_char = NoneVal]
              ELSE st
    ELSE st

\* the string branch without line 147: string_char keeps the closed quote
StringBranchKeepsChar(s, st) ==
    IF s[st.i] \in Quotes
    THEN IF ~st.in_string
         THEN [st EXCEPT !.in_string = TRUE, !.string_char = s[st.i]]
         ELSE IF s[st.i] = st.string_char /\ At(s, st.i - 1) # BS
              THEN [st EXCEPT !.in_string = FALSE]
              ELSE st
    ELSE st

\* lines 138-147: a quote character opens a string, or closes the string
\* it opened unless the character before it is a backslash
StringBranch(s, st) ==
    IF s[st.i] \in Quotes
    THEN IF ~st.in_string
         THEN [st EXCEPT !.in_string = TRUE, !.string_char = s[st.i]]
         ELSE IF s[st.i] = st.string_char /\ At(s, st.i - 1) # BS
              THEN [st EXCEPT !.in_string = FALSE, !.string_char = NoneVal]
              ELSE st
    ELSE st

\* lines 154-160: the stack after a closing bracket popped it
Popped(st, popped) == [st EXCEPT !.stack = popped, !.returned = (popped = <<>>)]

\* lines 151-160
BracketBranch(s, st) ==
    IF s[st.i] \in Openers
    THEN [st EXCEPT !.stack = Append(st.stack, s[st.i])]
    ELSE IF s[st.i] \in Closers /\ st.stack # <<>>
         THEN Popped(st, SubSeq(st.stack, 1, Len(st.stack) - 1))
         ELSE st

\* line 137
StringPhase(s, st) ==
    IF ~st.in_comment /\ ~st.in_block_comment THEN StringBranch(s, st) ELSE st

\* the bracket phase without the in_string test of line 150
BracketPhaseInString(s, st) ==
    IF ~st.in_comment /\ ~st.in_block_comment THEN BracketBranch(s, st) ELSE st

\* line 150
BracketPhase(s, st) ==
    IF ~st.in_string /\ ~st.in_comment /\ ~st.in_block_comment
    THEN BracketBranch(s, st) ELSE st

\* line 162, not reached when the loop body returned
Advance(st) == IF st.returned THEN st ELSE [st EXCEPT !.i = st.i + 1]

\* the comment branch without the next_char test of line 129
CommentBranchStar(s, st) ==
    IF ~st.in_comment /\ ~st.in_block_comment
       /\ s[st.i] = "/" /\ At(s, st.i + 1) = "/"
    THEN [st EXCEPT !.in_comment = TRUE, !.i = st.i + 2]
    ELSE IF ~st.in_comment /\ ~st.in_block_comment
            /\ s[st.i] = "/" /\ At(s, st.i + 1) = "*"
    THEN [st EXCEPT !.in_block_comment = TRUE, !.i = st.i + 2]
    ELSE IF st.in_comment
    THEN [st EXCEPT !.in_comment = (s[st.i] # NL), !.i = st.i + 1]
    ELSE IF s[st.i] = "*"
    THEN [st EXCEPT !.in_block_comment = FALSE, !.i = st.i + 2]
    ELSE [st EXCEPT !.i = st.i + 1]

\* the comment branch without the i += 1 of line 125: inside a line comment
\* the index moves only at the newline
CommentBranchStays(s, st) ==
    IF ~st.in_comment /\ ~st.in_block_comment
       /\ s[st.i] = "/" /\ At(s, st.i + 1) = "/"
    THEN [st EXCEPT !.in_comment = TRUE, !.i = st.i + 2]
    ELSE IF ~st.in_comment /\ ~st.in_block_comment
            /\ s[st.i] = "/" /\ At(s, st.i + 1) = "*"
    THEN [st EXCEPT !.in_block_comment = TRUE, !.i = st.i + 2]
    ELSE IF st.in_comment
    THEN IF s[st.i] = NL THEN [st EXCEPT !.in_comment = FALSE, !.i = st.i + 1] ELSE st
    ELSE IF s[st.i] = "*" /\ At(s, st.i + 1) = "/"
    THEN [st EXCEPT !.in_block_comment = FALSE, !.i = st.i + 2]
    ELSE [st EXCEPT !.i = st.i + 1]

\* lines 111-134: the comment branch of an iteration that is not in a string
CommentBranch(s, st) ==
    IF ~st.in_comment /\ ~st.in_block_comment
       /\ s[st.i] = "/" /\ At(s, st.i + 1) = "/"
    THEN [st EXCEPT !.in_comment = TRUE, !.i = st.i + 2]
    ELSE IF ~st.in_comment /\ ~st.in_block_comment
            /\ s[st.i] = "/" /\ At(s, st.i + 1) = "*"
    THEN [st EXCEPT !.in_block_comment = TRUE, !.i = st.i + 2]
    ELSE IF st.in_comment
    THEN [st EXCEPT !.in_comment = (s[st.i] # NL), !.i = st.i + 1]
    ELSE IF s[st.i] = "*" /\ At(s, st.i + 1) = "/"
    THEN [st EXCEPT !.in_block_comment = FALSE, !.i = st.i + 2]
    ELSE [st EXCEPT !.i = st.i + 1]

\* the iteration ends in the comment branch (one of its "continue")
TakesCommentBranch(s, st) ==
    /\ ~st.in_string
    /\ \/ st.in_comment
       \/ st.in_block_comment
       \/ s[st.i] = "/" /\ At(s, st.i + 1) \in {"/", "*"}

\* lines 106-162, the loop body: st is the state at the top of the loop,
\* st.i <= Len(s)
ScanStep(s, st) ==
    IF TakesCommentBranch(s, st) THEN CommentBranch(s, st)
    ELSE Advance(BracketPhase(s, StringPhase(s, st)))

\* the pair of lines 158-159 with the tail cut one character early
FoundResultShort(s, cur, st) ==
    [ok |-> TRUE, data_str |-> SubSeq(s, cur, st.i), tail_code |-> Suffix(s, st.i)]

\* lines 158-160: the pair returned when the stack empties at index st.i
FoundResult(s, cur, st) ==
    [ok |-> TRUE, data_str |-> SubSeq(s, cur, st.i), tail_code |-> Suffix(s, st.i + 1)]

\* the loop condition and body: a scan that returned or ran off the end of
\* the document stays as it is
ScanIteration(s, st) ==
    IF st.returned \/ st.i > Len(s) THEN st ELSE ScanStep(s, st)

RECURSIVE ScanRun(_, _, _)
\* the rest of a run: n more iterations from the one state in mids
ScanRest(s, mids, n) == CHOOSE st \in {ScanRun(s, mid, n) : mid \in mids} : TRUE

\* n iterations of the while loop from st, evaluated in halves so that the
\* evaluation stays shallow on long documents
ScanRun(s, st, n) ==
    IF n = 0 THEN st
    ELSE IF n = 1 THEN ScanIteration(s, st)
    ELSE ScanRest(s, {ScanRun(s, st, n \div 2)}, n - (n \div 2))

\* line 160 or line 164
ScanOutcome(s, cur, st) ==
    IF st.returned THEN FoundResult(s, cur, st) ELSE NotFoundResult(s)

\* lines 105-164: the while loop; i grows in every iteration, so it runs
\* fewer than Len(s) times
ScanLoop(s, cur, st) == ScanOutcome(s, cur, ScanRun(s, st, Len(s)))

\* lines 95-104
ScanFrom(s, cur) ==
    IF cur > Len(s) THEN NotFoundResult(s)
    ELSE ScanLoop(s, cur, ScanState(cur, <<>>, FALSE, NoneVal, FALSE, FALSE))

\* lines 85-93
ExtractFrom(s, start_idx) ==
    IF start_idx = 0 THEN NotFoundResult(s)
    ELSE ScanFrom(s, FindCursor(s, start_idx))

extract_ts_variable_value(s, var_name) == ExtractFrom(s, SearchEnd(s, var_name))

-----------------------------------------------------------------------------
(* Collections: the values json5.loads returns and json.dumps writes.      *)
(* An object keeps its members in insertion order, as a Python dict does.  *)

JNum(n) == [t |-> "num", v |-> n]
JStr(s) == [t |-> "str", v |-> s]
JArr(items) == [t |-> "arr", v |-> items]
JObj(members) == [t |-> "obj", v |-> members]     \* a sequence of <<key, value>>
JNone == [t |-> "None", v |-> 0]

HasKey(obj, key) == \E x \in DOMAIN obj.v : obj.v[x][1] = key
\* obj[key]
Get(obj, key) == obj.v[CHOOSE x \in DOMAIN obj.v : obj.v[x][1] = key][2]
\* obj[key] = val: an existing key keeps its place, a new key goes last
SetKey(obj, key, val) ==
    IF HasKey(obj, key)
    THEN JObj([x \in DOMAIN obj.v |->
                 IF obj.v[x][1] = key THEN <<key, val>> ELSE obj.v[x]])
    ELSE JObj(Append(obj.v, <<key, val>>))

\* Python truthiness of a value
Truthy(val) ==
    CASE val.t = "None" -> FALSE
      [] val.t = "num" -> val.v # 0
      [] OTHER -> val.v # <<>>

-----------------------------------------------------------------------------
(* json.dumps(data, indent=4, ensure_ascii=False), line 195 *)

RECURSIVE IntStr(_)
IntStr(n) == IF n < 10 THEN <<DigitSyms[n + 1]>>
             ELSE IntStr(n \div 10) \o <<DigitSyms[(n % 10) + 1]>>

\* the escapes of the JSON encoder
EscapeChar(c) ==
    CASE c = DQ -> <<BS, DQ>>
      [] c = BS -> <<BS, BS>>
      [] c = NL -> <<BS, "n">>
      [] OTHER -> <<c>>

RECURSIVE EscapeStr(_)
EscapeStr(s) == IF s = <<>> THEN <<>> ELSE EscapeChar(Head(s)) \o EscapeStr(Tail(s))

QuoteStr(s) == <<DQ>> \o EscapeStr(s) \o <<DQ>>

RECURSIVE Indents(_)
Indents(level) == IF level = 0 THEN <<>> ELSE <<Indent>> \o Indents(level - 1)

\* what precedes the value of item x of an array (nothing) or object (its key)
ItemKey(val, x) ==
    IF val.t = "arr" THEN <<>> ELSE QuoteStr(val.v[x][1]) \o <<":", " ">>
ItemValue(val, x) == IF val.t = "arr" THEN val.v[x] ELSE val.v[x][2]

RECURSIVE Dumps(_, _)
RECURSIVE DumpItems(_, _, _)
\* the items of a non-empty array or object from index x on, one per line
DumpItems(val, x, level) ==
    Indents(level) \o ItemKey(val, x) \o Dumps(ItemValue(val, x), level)
    \o (IF x < Len(val.v) THEN <<",", NL>> \o DumpItems(val, x + 1, level)
        ELSE <<NL>>)

Dumps(val, level) ==
    CASE val.t = "num" -> IntStr(val.v)
      [] val.t = "str" -> QuoteStr(val.v)
      [] OTHER ->
            <<IF val.t = "arr" THEN "[" ELSE "{">>
            \o (IF val.v = <<>> THEN <<>>
                ELSE <<NL>> \o DumpItems(val, 1, level + 1) \o Indents(level))
            \o <<IF val.t = "arr" THEN "]" ELSE "}">>

json_dumps(data) == Dumps(data, 0)

-----------------------------------------------------------------------------
(* json5.loads(data_str), line 180: arrays, objects with quoted or         *)
(* unquoted keys, double- and single-quoted strings, decimal integers,     *)
(* trailing commas, white space and both comment forms.  Anything else is  *)
(* a grammar error.                                                        *)

ParseFail == [ok |-> FALSE, val |-> JNone, p |-> 0]
ParseOk(val, p) == [ok |-> TRUE, val |-> val, p |-> p]

RECURSIVE FindBlockEnd(_, _)
\* the position after the next "*/" at or after p; 0 if there is none
FindBlockEnd(s, p) ==
    IF p >= Len(s) THEN 0
    ELSE IF s[p] = "*" /\ s[p + 1] = "/" THEN p + 2
    ELSE FindBlockEnd(s, p + 1)

RECURSIVE SkipWs(_, _)
RECURSIVE SkipBlock(_, _, _)
\* a block comment opened at p and closed before e (0: never closed, which
\* leaves the comment where it starts: a grammar error for every caller)
SkipBlock(s, p, e) == IF e = 0 THEN p ELSE SkipWs(s, e)

\* the next position at or after p that is neither white space nor comment
SkipWs(s, p) ==
    IF At(s, p) \in Whitespace THEN SkipWs(s, p + 1)
    ELSE IF At(s, p) = "/" /\ At(s, p + 1) = "/"
    THEN SkipWs(s, RunEnd(s, p + 2, {c \in Range(s) : c # NL}))
    ELSE IF At(s, p) = "/" /\ At(s, p + 1) = "*"
    THEN SkipBlock(s, p, FindBlockEnd(s, p + 2))
    ELSE p

\* the character an escape sequence stands for
Unescape(e) == IF e = "n" THEN NL ELSE e

RECURSIVE ParseString(_, _, _, _)
\* s[p..] is the rest of a string opened by quote q; acc is the text so far
ParseString(s, p, q, acc) ==
    IF At(s, p) = "" \/ At(s, p) = NL THEN ParseFail
    ELSE IF At(s, p) = q THEN ParseOk(JStr(acc), p + 1)
    ELSE IF At(s, p) = BS
    THEN IF At(s, p + 1) = "" \/ At(s, p + 1) \in Digits THEN ParseFail
         ELSE ParseString(s, p + 2, q,
                  IF At(s, p + 1) = NL THEN acc ELSE Append(acc, Unescape(At(s, p + 1))))
    ELSE ParseString(s, p + 1, q, Append(acc, At(s, p)))

DigitValue(c) == CHOOSE d \in 0..9 : DigitSyms[d + 1] = c

RECURSIVE DigitsValue(_)
DigitsValue(ds) ==
    IF ds = <<>> THEN 0
    ELSE 10 * DigitsValue(SubSeq(ds, 1, Len(ds) - 1)) + DigitValue(ds[Len(ds)])

\* the digits s[p..e-1]: no leading zero, no letter right after
NumberUpTo(s, p, e) ==
    IF (s[p] = "0" /\ e > p + 1) \/ At(s, e) \in Letters THEN ParseFail
    ELSE ParseOk(JNum(DigitsValue(SubSeq(s, p, e - 1))), e)

ParseNumber(s, p) == NumberUpTo(s, p, RunEnd(s, p, Digits))

\* an unquoted key s[p..e-1]
IdentifierUpTo(s, p, e) == ParseOk(JStr(SubSeq(s, p, e - 1)), e)

\* the key of a member: a string or an identifier
ParseKey(s, p) ==
    IF At(s, p) \in {DQ, SQ} THEN ParseString(s, p + 1, At(s, p), <<>>)
    ELSE IF At(s, p) \in Letters THEN IdentifierUpTo(s, p, RunEnd(s, p, WordSyms))
    ELSE ParseFail

RECURSIVE ParseValue(_, _)
RECURSIVE ParseElems(_, _, _)
RECURSIVE ElemsAfterValue(_, _, _)
RECURSIVE ElemsSeparator(_, _, _)
RECURSIVE ParseMembers(_, _, _)
RECURSIVE MemberAfterKey(_, _, _)
RECURSIVE MemberColon(_, _, _, _)
RECURSIVE MemberAfterValue(_, _, _, _)
RECURSIVE MemberSeparator(_, _, _)

\* s[p] is the first symbol of a value
ParseValue(s, p) ==
    CASE At(s, p) = "[" -> ParseElems(s, SkipWs(s, p + 1), <<>>)
      [] At(s, p) = "{" -> ParseMembers(s, SkipWs(s, p + 1), JObj(<<>>))
      [] At(s, p) \in {DQ, SQ} -> ParseString(s, p + 1, At(s, p), <<>>)
      [] At(s, p) \in Digits -> ParseNumber(s, p)
      [] OTHER -> ParseFail

\* after an element: "," and more elements, or "]"
ElemsSeparator(s, acc, q) ==
    IF At(s, q) = "," THEN ParseElems(s, SkipWs(s, q + 1), acc)
    ELSE IF At(s, q) = "]" THEN ParseOk(JArr(acc), q + 1)
    ELSE ParseFail

ElemsAfterValue(s, acc, e) ==
    IF e.ok THEN ElemsSeparator(s, Append(acc, e.val), SkipWs(s, e.p)) ELSE ParseFail

\* the elements of an array after "[" or ","
ParseElems(s, p, acc) ==
    IF At(s, p) = "]" THEN ParseOk(JArr(acc), p + 1)
    ELSE ElemsAfterValue(s, acc, ParseValue(s, p))

\* after a member: "," and more members, or "}"
MemberSeparator(s, acc, q) ==
    IF At(s, q) = "," THEN ParseMembers(s, SkipWs(s, q + 1), acc)
    ELSE IF At(s, q) = "}" THEN ParseOk(acc, q + 1)
    ELSE ParseFail

MemberAfterValue(s, acc, key, e) ==
    IF e.ok THEN MemberSeparator(s, SetKey(acc, key, e.val), SkipWs(s, e.p))
    ELSE ParseFail

MemberColon(s, acc, key, colon) ==
    IF At(s, colon) = ":"
    THEN MemberAfterValue(s, acc, key, ParseValue(s, SkipWs(s, colon + 1)))
    ELSE ParseFail

MemberAfterKey(s, acc, k) ==
    IF k.ok THEN MemberColon(s, acc, k.val.v, SkipWs(s, k.p)) ELSE ParseFail

\* the members of an object after "{" or ","
ParseMembers(s, p, acc) ==
    IF At(s, p) = "}" THEN ParseOk(acc, p + 1)
    ELSE MemberAfterKey(s, acc, ParseKey(s, p))

\* the value, if nothing but white space and comments follows it
WholeText(s, e) == IF e.ok /\ SkipWs(s, e.p) = Len(s) + 1 THEN e ELSE ParseFail

\* json5.loads: [ok |-> FALSE] stands for the exception it raises
json5_loads(s) == WholeText(s, ParseValue(s, SkipWs(s, 1)))

-----------------------------------------------------------------------------
(* parse_ts_data and write_ts_data for friends.ts *)

NoneTail == <<NoneVal>>        \* the value None of a tail that was never loaded

FriendsVar == <<"friendsData">>
\* get_ts_type("friends")
FriendsType == <<"FriendItem", "[", "]">>
\* INTERFACES.get("friends", ""): the interface text of interfaces.json
FriendsInterface == <<"interface", " ", "FriendItem", " ", "{", "id", ";", "}">>

EmptyList == JArr(<<>>)

\* return [], ""
NothingRead == [data |-> EmptyList, tail |-> <<>>]

\* a reader that keeps the tail of a literal it could not parse
ReadParsedKeepsTail(j, tail_code) ==
    [data |-> IF j.ok THEN j.val ELSE EmptyList, tail |-> tail_code]

\* lines 178-184
ReadParsed(j, tail_code) ==
    IF j.ok THEN [data |-> j.val, tail |-> tail_code] ELSE NothingRead

\* lines 177-187; data_str is truthy exactly when a literal was found
ReadExtracted(e) ==
    IF e.ok THEN ReadParsed(json5_loads(e.data_str), e.tail_code) ELSE NothingRead

\* parse_ts_data(root, "friends.ts", "friendsData") on the file d
parse_ts_data(d) ==
    IF ~d.exists THEN NothingRead
    ELSE ReadExtracted(extract_ts_variable_value(d.text, FriendsVar))

\* tail_code.strip().startswith(";")
StartsWithSemicolon(tail) == At(tail, RunEnd(tail, 1, Whitespace)) = ";"

\* line 200
DefaultTail(tail_code) ==
    IF tail_code = NoneTail \/ tail_code = <<>> THEN <<";", NL>> ELSE tail_code

\* lines 202-203 without strip()
TerminatedTailNoStrip(tail_code) ==
    IF At(tail_code, 1) # ";" THEN <<";", NL>> \o tail_code ELSE tail_code

\* lines 202-203
TerminatedTail(tail_code) ==
    IF ~StartsWithSemicolon(tail_code) THEN <<";", NL>> \o tail_code ELSE tail_code

\* lines 200-203: the tail as written
WrittenTail(tail_code) == TerminatedTail(DefaultTail(tail_code))

\* the text before the literal in new_content, line 205
WrittenHead ==
    FriendsInterface \o <<NL, EC>> \o FriendsVar \o <<":", " ">> \o FriendsType
    \o <<" ", "=", " ">>

\* write_ts_data without lines 202-203: the tail goes out as it came in
WriteUnterminated(data, tail_code) ==
    WrittenHead \o json_dumps(data) \o DefaultTail(tail_code)

\* new_content of write_ts_data(root, "friends.ts", "friendsData", data, "friends", tail_code)
write_ts_data(data, tail_code) ==
    WrittenHead \o json_dumps(data) \o WrittenTail(tail_code)

-----------------------------------------------------------------------------
(* The friends handlers.  A record carries its id and one text field,      *)
(* title; imgurl, desc and siteurl are handled exactly like title.         *)

Friend(id, title) == JObj(<< <<<<"id">>, JNum(id)>>, <<<<"title">>, JStr(title)>> >>)

\* data if data else []
OrEmpty(data) == IF Truthy(data) THEN data ELSE EmptyList

Least(S) == IF S = {} THEN 0 ELSE CHOOSE x \in S : \A y \in S : x <= y
Greatest(S) == IF S = {} THEN 0 ELSE CHOOSE x \in S : \A y \in S : y <= x

\* next((x for x in data if x['id'] == fid), None) as an index; 0 for None
FirstIndex(data, fid) ==
    Least({x \in DOMAIN data.v : Get(data.v[x], <<"id">>) = JNum(fid)})

RemoveAt(seq, x) == SubSeq(seq, 1, x - 1) \o SubSeq(seq, x + 1, Len(seq))

\* the number of records taken for the greatest id
MaxIdAsCount(data) == Len(data.v)

\* max([x['id'] for x in data], default=0)
MaxIdOf(data) == Greatest({Get(data.v[x], <<"id">>).v : x \in DOMAIN data.v})

\* load_friends_ui(root) after parse_ts_data returned p
Loaded(p) == [data |-> OrEmpty(p.data), tail |-> p.tail]

\* load_friends_ui(root) on the file d: the values of f_data and f_tail
load_friends_ui(d) == Loaded(parse_ts_data(d))

\* the handler returned without calling write_ts_data
Returned ==
    /\ raised' = FALSE
    /\ wrote' = "none"

\* the handler ended in an exception before it called write_ts_data, or the
\* framework rejected what it returned: no output changes
Raised ==
    /\ raised' = TRUE
    /\ wrote' = "none"

\* the outputs of a handler that wrote text and reloaded u from it
Reloaded(text, u) ==
    /\ disk' = [exists |-> TRUE, text |-> text]
    /\ f_data' = u.data
    /\ f_tail' = u.tail
    /\ f_msg' = "saved"
    /\ raised' = FALSE
    /\ wrote' = "ok"
    /\ UNCHANGED tail0

Written(text) == Reloaded(text, load_friends_ui([exists |-> TRUE, text |-> text]))

\* msg = write_ts_data(...); u = load_friends_ui(root); return msg, u[0], u[1], u[2]
WriteAndReload(data, tail_code) ==
    /\ Written(write_ts_data(data, tail_code))
    /\ written' = data

\* the refresh button: load_friends_ui
LoadedFrom(u) ==
    /\ f_data' = u.data
    /\ f_tail' = u.tail
    /\ Returned
    /\ UNCHANGED <<disk, f_msg, tail0, written>>

LoadFriends == LoadedFrom(load_friends_ui(disk))

\* lines 388-395
CreateWith(data, tail_code, new_id, title) ==
    /\ Len(data.v) < MaxRecords
    /\ new_id <= MaxId
    /\ WriteAndReload(JArr(Append(data.v, Friend(new_id, title))), tail_code)

\* lines 387-388
CreateIn(data, tail_code, title) == CreateWith(data, tail_code, MaxIdOf(data) + 1, title)

\* line 386
CreateFrom(p, title) == CreateIn(OrEmpty(p.data), p.tail, title)

\* create_friend_btn(root, title, ...)
CreateFriend(title) == CreateFrom(parse_ts_data(disk), title)

\* the records of the file that the session's collection does not hold
NotHeld(data, on_disk) ==
    SelectSeq(on_disk.v, LAMBDA r : FirstIndex(data, Get(r, <<"id">>).v) = 0)

\* a save that re-reads the file and keeps the records it finds only there
SaveAtMerging(data, x, title) ==
    IF x # 0
    THEN WriteAndReload(JArr([data.v EXCEPT ![x] = SetKey(@, <<"title">>, JStr(title))]
                             \o NotHeld(data, OrEmpty(parse_ts_data(disk).data))),
                        f_tail)
    ELSE /\ f_msg' = "Error"
         /\ f_data' = data
         /\ Returned
         /\ UNCHANGED <<disk, f_tail, tail0, written>>

\* lines 375-383: x is the index of the record found, 0 for None
SaveAt(data, x, title) ==
    IF x # 0
    THEN WriteAndReload(JArr([data.v EXCEPT ![x] = SetKey(@, <<"title">>, JStr(title))]),
                        f_tail)
    ELSE /\ f_msg' = "Error"
         /\ f_data' = data
         /\ Returned
         /\ UNCHANGED <<disk, f_tail, tail0, written>>

\* line 374
SaveIn(data, fid, title) == SaveAt(data, FirstIndex(data, fid), title)

\* save_friend_btn(root, data, tail, fid, title, ...)
SaveFriend(fid, title) == SaveIn(OrEmpty(f_data), fid, title)

\* lines 407-418: x is the index of the record found, 0 if none
DeleteAt(x) ==
    IF x = 0
    THEN /\ f_msg' = "not found"
         /\ Returned
         /\ UNCHANGED <<disk, f_data, f_tail, tail0, written>>
    ELSE WriteAndReload(JArr(RemoveAt(f_data.v, x)), f_tail)

\* delete_selected_friend(root, data, tail, fid); iterating over the data of
\* a session that never loaded raises, and the outputs keep their values
DeleteFriend(fid) ==
    IF fid = 0
    THEN /\ f_msg' = "none selected"
         /\ Returned
         /\ UNCHANGED <<disk, f_data, f_tail, tail0, written>>
    ELSE IF f_data = JNone
    THEN Raised /\ UNCHANGED <<sessVars, histVars>>
    ELSE DeleteAt(FirstIndex(f_data, fid))

-----------------------------------------------------------------------------
(* The documents an edit session can start from *)

FormTitles == {<<"a">>, <<DQ, "]">>, <<"a", BS>>}
FormIds == 0..MaxId

OtherHeads ==
    {<<"import", ";", NL, EC>> \o FriendsVar \o <<" ", "=", " ">>,
     <<"/", "/", "c", NL, EC>> \o FriendsVar \o <<":", " ", "T", "[", "]", "=">>}

WrittenLiterals ==
    {json_dumps(EmptyList),
     json_dumps(JArr(<<Friend(1, <<"a">>)>>)),
     json_dumps(JArr(<<Friend(2, <<"b", DQ>>), Friend(1, <<"a">>)>>))}

\* hand-written, in JSON5 style
Json5Literal ==
    <<"[", "{", "id", ":", " ", "1", ",", " ", "title", ":", " ", SQ, "a", " ", "]", SQ,
      ",", "}", ",", " ", "/", "/", " ", "]", NL, "]">>

\* a grammar error, an unbalanced literal, a string ending in a backslash
BrokenLiterals ==
    {<<"[", "{", "id", ":", "1", " ", "title", ":", DQ, "a", DQ, "}", "]">>,
     <<"[", "{", "id", ":", "1", ",", "title", ":", DQ, "a", DQ, "}">>,
     json_dumps(JArr(<<Friend(1, <<"a", BS>>)>>))}

InitTails ==
    {<<>>, <<";", NL>>, <<";", NL, "/", "/", " ", "c", NL>>,
     <<NL, EC, "m", " ", "=", " ", "[", "]", ";", NL>>}

InitTexts ==
    {WrittenHead \o l \o t :
        l \in WrittenLiterals \cup {Json5Literal} \cup BrokenLiterals, t \in InitTails}
    \cup {h \o l \o t : h \in OtherHeads, l \in {Json5Literal} \cup BrokenLiterals,
                        t \in {<<";", NL, "/", "/", " ", "c", NL>>}}
    \cup {<<"import", ";", NL>>}

IdleScan ==
    /\ content = <<>>
    /\ pc = "idle"
    /\ cursor = 0
    /\ i = 0
    /\ stack = <<>>
    /\ in_string = FALSE
    /\ string_char = NoneVal
    /\ in_comment = FALSE
    /\ in_block_comment = FALSE
    /\ result = NotFoundResult(<<>>)

\* no handler ran yet, and nothing but the session edited the file
IdleCalls ==
    /\ op = ""
    /\ raised = FALSE
    /\ wrote = "none"
    /\ ext = "none"

\* no image is being saved
IdleImages ==
    /\ folder = {}
    /\ imgs = <<>>
    /\ dest = <<>>
    /\ img_paths = <<>>
    /\ img_pc = "idle"

\* no tab other than Friends is used; writing works
IdleTabs ==
    /\ tab = "Friends"
    /\ tab_file = [exists |-> FALSE, text |-> <<>>]
    /\ tab_data = JNone
    /\ tab_tail = NoneTail
    /\ tab_msg = ""
    /\ unique0 = TRUE
    /\ io = "ok"
    /\ IdleCalls
    /\ IdleImages

\* the tail of the document a session starts from
OriginalTail(e) == [ok |-> e.ok, tail |-> IF e.ok THEN e.tail_code ELSE <<>>]

Init ==
    /\ \/ disk \in {[exists |-> TRUE, text |-> t] : t \in InitTexts}
       \/ disk = [exists |-> FALSE, text |-> <<>>]
    /\ f_data = JNone
    /\ f_tail = NoneTail
    /\ f_msg = ""
    /\ tail0 = OriginalTail(extract_ts_variable_value(disk.text, FriendsVar))
    /\ written = JNone
    /\ IdleScan
    /\ IdleTabs

\* what a save or a delete did to an edit made outside the session: the
\* handler writes the session's collection over it
Overwrites == IF wrote' # "ok" THEN ext ELSE IF ext = "pending" THEN "lost" ELSE "none"

\* the click that ran the friends handler name
Called(name, ext_after) ==
    /\ op' = name
    /\ ext' = ext_after
    /\ UNCHANGED <<scanVars, tabVars, io, imgVars>>

Next ==
    \/ LoadFriends /\ Called("load_friends_ui", "none")
    \/ \E title \in FormTitles : CreateFriend(title) /\ Called("create_friend_btn", "none")
    \/ \E fid \in FormIds, title \in FormTitles :
          SaveFriend(fid, title) /\ Called("save_friend_btn", Overwrites)
    \/ \E fid \in FormIds : DeleteFriend(fid) /\ Called("delete_selected_friend", Overwrites)

Spec == Init /\ [][Next]_vars

-----------------------------------------------------------------------------
(* The scanner run one loop iteration at a time *)

VarName == <<"d">>

MainHead == <<EC, "d", " ", "=", " ">>
Heads == {MainHead,
          <<EC, "d", ":", " ", "T", "[", "]", " ", "=", " ">>,
          <<EC, "d", "=">>}
NoHeads == {<<>>, <<EC, "d", "O", " ", "=", " ">>, <<EC, "m", "d", "=">>,
            <<EC, "m", "d", "O", "=">>, <<EC, "d", ":", "=">>, <<"d", "=">>}
Gaps == {<<>>, <<"a">>, <<DQ, "]">>}

ScanAlphabet == {"[", "]", DQ, SQ, BS, "/", "*", NL}
SideAlphabet == {"]", "}", BQ, "a"}

\* the literals of the specification's examples
ExampleLiterals ==
    {<<"[", DQ, "a", " ", "]", " ", "a", DQ, ",", " ", "{", DQ, "k", DQ, ":", " ",
       DQ, "c", " ", "{", " ", "d", DQ, "}", "]">>,
     <<"[", DQ, "a", " ", BS, DQ, "a", BS, DQ, DQ, "]">>,
     <<"/", "/", " ", "a", NL, "[", "1", ",", " ", "2", "]">>,
     <<"/", "*", " ", "a", " ", "*", "/", "[", "1", ",", " ", "2", "]">>,
     <<"[", "/", "*", "]", DQ, "*", "/", "{", "/", "/", "}", SQ, NL, "}", "]">>}
ExampleTails == {<<>>, <<";", NL, "a", "]">>}

ScanDocs ==
    {MainHead \o <<"[">> \o r : r \in SeqsUpTo(ScanAlphabet, MaxScanLen)}
    \cup {h \o g \o <<o>> \o r : h \in Heads \cup NoHeads, g \in Gaps,
                                  o \in Openers, r \in SeqsUpTo(SideAlphabet, 2)}
    \cup {h \o g : h \in Heads \cup NoHeads, g \in Gaps}
    \cup {MainHead \o l \o t : l \in ExampleLiterals, t \in ExampleTails}

CurState == [i |-> i, stack |-> stack, in_string |-> in_string,
             string_char |-> string_char, in_comment |-> in_comment,
             in_block_comment |-> in_block_comment, returned |-> FALSE]

IdleSession ==
    /\ disk = [exists |-> FALSE, text |-> <<>>]
    /\ f_data = JNone
    /\ f_tail = NoneTail
    /\ f_msg = ""
    /\ tail0 = [ok |-> FALSE, tail |-> <<>>]
    /\ written = JNone

ScanInit ==
    /\ content \in ScanDocs
    /\ pc = "start"
    /\ cursor = 0
    /\ i = 0
    /\ stack = <<>>
    /\ in_string = FALSE
    /\ string_char = NoneVal
    /\ in_comment = FALSE
    /\ in_block_comment = FALSE
    /\ result = NotFoundResult(<<>>)
    /\ IdleSession
    /\ IdleTabs

\* lines 85-104 once the pattern was searched and the bracket looked for
Located(start_idx, cur) ==
    IF start_idx = 0 \/ cur > Len(content)
    THEN /\ pc' = "done"
         /\ result' = NotFoundResult(content)
         /\ UNCHANGED <<cursor, i>>
    ELSE /\ pc' = "scan"
         /\ cursor' = cur
         /\ i' = cur
         /\ UNCHANGED result

LocateFrom(start_idx) == Located(start_idx, FindCursor(content, start_idx))

\* lines 83-104: locate the declaration and the opening bracket
ScanLocate ==
    /\ pc = "start"
    /\ LocateFrom(SearchEnd(content, VarName))
    /\ UNCHANGED <<content, stack, in_string, string_char, in_comment, in_block_comment>>
    /\ UNCHANGED <<sessVars, histVars, tabVars, restVars>>

\* the variables after the loop body ran to state nx
Stepped(nx) ==
    /\ i' = nx.i
    /\ stack' = nx.stack
    /\ in_string' = nx.in_string
    /\ string_char' = nx.string_char
    /\ in_comment' = nx.in_comment
    /\ in_block_comment' = nx.in_block_comment
    /\ IF nx.returned
       THEN pc' = "done" /\ result' = FoundResult(content, cursor, nx)
       ELSE UNCHANGED <<pc, result>>

\* lines 105-162: one iteration of the while loop
ScanIterate ==
    /\ pc = "scan"
    /\ i <= Len(content)
    /\ Stepped(ScanStep(content, CurState))
    /\ UNCHANGED <<content, cursor>>
    /\ UNCHANGED <<sessVars, histVars, tabVars, restVars>>

\* line 164: the loop ran off the end of the document
ScanExhausted ==
    /\ pc = "scan"
    /\ i > Len(content)
    /\ pc' = "done"
    /\ result' = NotFoundResult(content)
    /\ UNCHANGED <<content, cursor, i, stack, in_string, string_char,
                   in_comment, in_block_comment>>
    /\ UNCHANGED <<sessVars, histVars, tabVars, restVars>>

ScanNext == ScanLocate \/ ScanIterate \/ ScanExhausted

ScanSpec == ScanInit /\ [][ScanNext]_vars

-----------------------------------------------------------------------------
(* write_ts_data followed by parse_ts_data, on collections of any content *)

MaxTitleLen == 2

TitleAlphabet == {"a", DQ, SQ, "]", "{", "/", BS}
Titles == SeqsUpTo(TitleAlphabet, MaxTitleLen)

\* a mapping of one category to its records, the shape of the device catalog
Catalog(items) == JObj(<< <<<<"k">>, JArr(items)>> >>)

Collections ==
    {EmptyList}
    \cup {JArr(<<Friend(1, t)>>) : t \in Titles}
    \cup {JArr(<<Friend(1, <<"a">>), Friend(2, t)>>) : t \in {<<"b">>, <<BS>>, <<DQ, "]">>}}
    \cup {Catalog(<<Friend(1, t)>>) : t \in {<<"a">>, <<"a", BS>>, <<"}", DQ>>}}

RoundTripTails == {<<>>, <<";", NL>>, <<NL, "/", "/", " ", "c", DQ, NL>>,
                   <<NL, ";", NL>>, <<" ">>, NoneTail}

RoundTripInit ==
    /\ written \in Collections
    /\ f_tail \in RoundTripTails
    /\ disk = [exists |-> FALSE, text |-> <<>>]
    /\ f_data = JNone
    /\ f_msg = ""
    /\ tail0 = [ok |-> FALSE, tail |-> <<>>]
    /\ IdleScan
    /\ IdleTabs

\* write_ts_data(root, "friends.ts", "friendsData", written, "friends", f_tail)
RoundTripWrite ==
    /\ f_msg \in {"", "read"}
    /\ disk' = [exists |-> TRUE, text |-> write_ts_data(written, f_tail)]
    /\ f_msg' = "saved"
    /\ UNCHANGED <<f_data, f_tail, histVars, scanVars, tabVars, restVars>>

\* the pair parse_ts_data returned
ReadAs(p) ==
    /\ f_data' = p.data
    /\ f_tail' = p.tail
    /\ f_msg' = "read"

\* parse_ts_data(root, "friends.ts", "friendsData")
RoundTripRead ==
    /\ f_msg = "saved"
    /\ ReadAs(parse_ts_data(disk))
    /\ UNCHANGED <<disk, histVars, scanVars, tabVars, restVars>>

RoundTripNext == RoundTripWrite \/ RoundTripRead

RoundTripSpec == RoundTripInit /\ [][RoundTripNext]_vars

-----------------------------------------------------------------------------
(* Properties of the reader and the writer *)

IsSuffix(t, s) == Len(t) <= Len(s) /\ SubSeq(s, Len(s) - Len(t) + 1, Len(s)) = t

\* the literal of d can be located, balanced and parsed
Readable(e) == e.ok /\ json5_loads(e.data_str).ok

Extracted(d) == extract_ts_variable_value(d.text, FriendsVar)

\* the declaration is there and its literal cannot be parsed
LiteralUnparsable(d) ==
    /\ d.exists
    /\ SearchEnd(d.text, FriendsVar) # 0
    /\ ~Readable(Extracted(d))

\* C1: a collection written by write_ts_data and read back by
\* extract_ts_variable_value and the parser is the collection written.
C1_RoundTrip == (f_msg = "read") => f_data = written

\* C2: once a handler has rewritten the document, the text that followed
\* the literal in the original document is a suffix of the document.
C2_TailPreserved ==
    (tail0.ok /\ written # JNone) => IsSuffix(tail0.tail, disk.text)

\* C3: a handler that finds the literal of the declaration unparsable leaves
\* the document on disk as it is.
C3_NoWriteWhenUnparsable == [][LiteralUnparsable(disk) => disk' = disk]_vars

\* the text before the literal of a document whose extraction is e
PrefixOf(d, e) == SubSeq(d.text, 1, Len(d.text) - Len(e.data_str) - Len(e.tail_code))

SameFrame(d, e, d2, e2) ==
    /\ e2.ok
    /\ PrefixOf(d2, e2) = PrefixOf(d, e)
    /\ e2.tail_code = e.tail_code

Terminated(t) ==
    \E k \in 1..Len(t) : t[k] = ";" /\ \A j \in 1..(k - 1) : t[j] \in Whitespace

TailAsWritten(t) ==
    IF t = <<>> THEN <<";", NL>>
    ELSE IF Terminated(t) THEN t
    ELSE <<";", NL>> \o t

RegeneratedHead ==
    <<"interface", " ", "FriendItem", " ", "{", "id", ";", "}", NL,
      EC, "friendsData", ":", " ", "FriendItem", "[", "]", " ", "=", " ">>

-----------------------------------------------------------------------------
(* Properties of the scanner, over the step machine ScanSpec *)

Scanning == pc = "scan" /\ i <= Len(content)
Normal == ~in_string /\ ~in_comment /\ ~in_block_comment

OpenCount(s, a, b) == Cardinality({p \in a..b : s[p] \in Openers})
CloseCount(s, a, b) == Cardinality({p \in a..b : s[p] \in Closers})

\* no quote and no slash in s[a..b]: every bracket of the span is structural
PlainSpan(s, a, b) == \A p \in a..b : s[p] \notin Quotes \cup {"/"}

\* b is the first position at which the brackets opened from a are closed
ClosesAt(s, a, b) ==
    /\ OpenCount(s, a, b) = CloseCount(s, a, b)
    /\ \A q \in a..(b - 1) : OpenCount(s, a, q) > CloseCount(s, a, q)

\* the first opening bracket at or after start, Len(s) + 1 if there is none
FirstOpener(s, start) ==
    IF \E p \in start..Len(s) : s[p] \in Openers
    THEN CHOOSE p \in start..Len(s) :
            s[p] \in Openers /\ \A q \in start..(p - 1) : s[q] \notin Openers
    ELSE Len(s) + 1

LocatedResult(start, open) ==
    IF result.ok
    THEN /\ start # 0
         /\ cursor = open
         /\ open < i
         /\ i <= Len(content)
         /\ content[i] \in Closers
         /\ result.data_str = SubSeq(content, open, i)
         /\ result.tail_code = SubSeq(content, i + 1, Len(content))
         /\ result.data_str \o result.tail_code = SubSeq(content, open, Len(content))
         /\ PlainSpan(content, open, i) => ClosesAt(content, open, i)
    ELSE (start # 0 /\ open <= Len(content) /\ PlainSpan(content, open, Len(content)))
            => \A b \in open..Len(content) : ~ClosesAt(content, open, b)

\* C5: the literal returned runs from the first opening bracket after the
\* declaration to the bracket that closes it at depth 0, and the tail is
\* the rest of the document, so that literal and tail together are the
\* document from the opening bracket on; a literal of plain brackets that
\* closes is returned.
C5_LocatorResult ==
    (pc = "done") =>
        LocatedResult(SearchEnd(content, VarName),
                      FirstOpener(content, SearchEnd(content, VarName)))

\* a literal found after a gap, with text left over as the tail
C5_Witness ==
    /\ pc = "done"
    /\ result.ok
    /\ cursor > SearchEnd(content, VarName)
    /\ result.tail_code # <<>>
    /\ Len(result.data_str) > 2

\* the literal of the specification's example of brackets inside strings
BracketsInStrings ==
    <<"[", DQ, "a", " ", "]", " ", "a", DQ, ",", " ", "{", DQ, "k", DQ, ":", " ",
      DQ, "c", " ", "{", " ", "d", DQ, "}", "]">>

\* C6: an iteration that starts inside a string changes neither the stack
\* nor the comment flags and does not end the scan, whatever the character
\* (a bracket, or the start of a comment); the example literal with brackets
\* inside its strings is returned whole.
C6_StringsHideBrackets ==
    [][/\ (Scanning /\ in_string) =>
            /\ stack' = stack
            /\ ~in_comment'
            /\ ~in_block_comment'
            /\ i' = i + 1
            /\ pc' = "scan"
       /\ (content = MainHead \o BracketsInStrings /\ pc' = "done") =>
            /\ result'.ok
            /\ result'.data_str = BracketsInStrings
            /\ result'.tail_code = <<>>]_vars

\* a closing bracket was passed inside a string, and the depth is as before
C6_Witness ==
    /\ pc = "scan"
    /\ in_string
    /\ At(content, i - 1) \in Closers
    /\ At(content, i - 2) = string_char
    /\ stack = <<"[">>

\* C7: inside a string opened by q, the iteration at a character that is q
\* and is not preceded by a backslash leaves the string; at every other
\* character (q after a backslash, another quote, anything else) the
\* scanner stays in the string opened by q.
C7_StringTermination ==
    [][(Scanning /\ in_string) =>
          IF content[i] = string_char /\ At(content, i - 1) # BS
          THEN ~in_string' /\ string_char' = NoneVal
          ELSE in_string' /\ string_char' = string_char]_vars

\* the quote that opened the string was passed again after a backslash,
\* and the scanner is still in the string
C7_Witness ==
    /\ pc = "scan"
    /\ in_string
    /\ i = cursor + 4
    /\ At(content, i - 1) = string_char
    /\ At(content, i - 2) = BS
    /\ At(content, i - 3) = string_char

\* C8: outside strings, "//" enters a line comment and "/*" a block
\* comment; a line comment ends at a newline and nowhere else, a block
\* comment at "*/" and nowhere else; an iteration in a comment changes
\* neither the stack nor the string state and does not end the scan.
C8_CommentSkipping ==
    [][/\ (Scanning /\ Normal /\ content[i] = "/" /\ At(content, i + 1) = "/") =>
            in_comment' /\ i' = i + 2 /\ stack' = stack /\ ~in_string'
       /\ (Scanning /\ Normal /\ content[i] = "/" /\ At(content, i + 1) = "*") =>
            in_block_comment' /\ i' = i + 2 /\ stack' = stack /\ ~in_string'
       /\ (Scanning /\ in_comment) =>
            /\ in_comment' = (content[i] # NL)
            /\ ~in_block_comment'
       /\ (Scanning /\ in_block_comment) =>
            /\ in_block_comment' = ~(content[i] = "*" /\ At(content, i + 1) = "/")
            /\ ~in_comment'
       /\ (Scanning /\ (in_comment \/ in_block_comment)) =>
            /\ stack' = stack
            /\ ~in_string'
            /\ string_char' = NoneVal
            /\ pc' = "scan"]_vars

\* a closing bracket and a quote were passed inside a block comment
C8_Witness ==
    /\ pc = "scan"
    /\ in_block_comment
    /\ At(content, i - 1) \in Quotes
    /\ At(content, i - 2) \in Closers
    /\ stack # <<>>

\* C9: at most one of in_string, in_comment and in_block_comment is true,
\* and string_char holds a quote character exactly when in_string is true.
C9_StateExclusive ==
    /\ ~(in_string /\ in_comment)
    /\ ~(in_string /\ in_block_comment)
    /\ ~(in_comment /\ in_block_comment)
    /\ in_string <=> string_char # NoneVal
    /\ in_string => string_char \in Quotes

\* a string was closed and a comment entered after it
C9_Witness ==
    /\ pc = "scan"
    /\ in_comment
    /\ string_char = NoneVal
    /\ At(content, i - 3) \in Quotes
    /\ At(content, i - 4) \in Quotes

\* C10: a scan that reaches the end of the document returns no literal and
\* the document itself, and it reaches the end with brackets open; a scan
\* returns a literal only at a closing bracket met outside strings and
\* comments.
C10_UnbalancedFails ==
    [][/\ (pc = "scan" /\ i > Len(content)) =>
            /\ stack # <<>>
            /\ pc' = "done"
            /\ result' = [ok |-> FALSE, data_str |-> <<>>, tail_code |-> content]
       /\ (Scanning /\ pc' = "done") =>
            /\ Normal
            /\ content[i] \in Closers
            /\ Len(stack) = 1
            /\ result'.ok]_vars

\* the end was reached inside a string that holds a closing bracket
C10_Witness ==
    /\ pc = "done"
    /\ ~result.ok
    /\ i > Len(content)
    /\ in_string
    /\ \E p \in (cursor + 2)..Len(content) : content[p] \in Closers

-----------------------------------------------------------------------------
(* Properties of the declaration pattern, over ScanSpec *)

\* the text "export const <name>" occurs in s
HasDeclText(s, name) ==
    \E p \in 1..Len(s) :
        /\ s[p] = EC
        /\ p + Len(name) <= Len(s)
        /\ SubSeq(s, p + 1, p + Len(name)) = name

NoLiteral(s) == [ok |-> FALSE, data_str |-> <<>>, tail_code |-> s]

\* C11: on a document without the text "export const <name>" the function
\* returns no literal and the document itself, whatever brackets, quotes or
\* other declarations the document holds.
C11_NotFound ==
    (pc = "done" /\ ~HasDeclText(content, VarName)) => result = NoLiteral(content)

\* a document with "<name> =" and a bracket but no "export const <name>"
C11_Witness ==
    /\ pc = "done"
    /\ ~HasDeclText(content, VarName)
    /\ \E p \in 1..(Len(content) - 2) :
          /\ SubSeq(content, p, p + 1) = VarName \o <<"=">>
          /\ \E q \in (p + 2)..Len(content) : content[q] \in Openers
    /\ result = NoLiteral(content)

\* the identifier declared at p, where s[p] is "export const "
IdentAt(s, p) ==
    SubSeq(s, p + 1,
           CHOOSE e \in p..Len(s) :
              /\ \A q \in (p + 1)..e : s[q] \in WordSyms
              /\ e = Len(s) \/ s[e + 1] \notin WordSyms)

ProperPart(name, w) ==
    /\ Len(name) < Len(w)
    /\ \E k \in 0..(Len(w) - Len(name)) : SubSeq(w, k + 1, k + Len(name)) = name

\* s declares identifiers that contain name, and does not declare name
OnlyLongerNames(s, name) ==
    /\ \E p \in 1..Len(s) : s[p] = EC /\ ProperPart(name, IdentAt(s, p))
    /\ \A p \in 1..Len(s) : s[p] = EC => IdentAt(s, p) # name

\* C12: when the document declares only identifiers of which the requested
\* name is a proper prefix, suffix or infix, the locator matches none of
\* them: no literal is returned.
C12_WholeWord ==
    (pc = "done" /\ OnlyLongerNames(content, VarName)) => result = NoLiteral(content)

\* the name is a prefix of the declared identifier and a bracket follows
C12_Witness ==
    /\ pc = "done"
    /\ OnlyLongerNames(content, VarName)
    /\ \E p \in 1..Len(content) :
          /\ content[p] = EC
          /\ SubSeq(content, p + 1, p + Len(VarName)) = VarName
          /\ \E q \in p..Len(content) : content[q] \in Openers
    /\ ~result.ok

-----------------------------------------------------------------------------
(* Properties of the writer, over RoundTripSpec *)

\* a step that calls write_ts_data
WriteStep == f_msg # "saved" /\ f_msg' = "saved"

\* the text of d after the head and the serialised collection
AfterLiteral(d, data) ==
    SubSeq(d.text, Len(RegeneratedHead) + Len(json_dumps(data)) + 1, Len(d.text))

TailIfFirstIs(t) ==
    IF t = <<>> \/ t = NoneTail THEN <<";", NL>>
    ELSE IF t[1] = ";" THEN t
    ELSE <<";", NL>> \o t

\* C13 as stated: the tail is written unchanged when its first character is
\* the terminator, as the terminator and a newline when it is empty, and
\* after a terminator and a newline otherwise.
C13_FirstCharacter ==
    [][WriteStep => AfterLiteral(disk', written) = TailIfFirstIs(f_tail)]_vars

TailIfTerminated(t) ==
    IF t = <<>> \/ t = NoneTail THEN <<";", NL>>
    ELSE IF Terminated(t) THEN t
    ELSE <<";", NL>> \o t

\* C13, amended: the tail is written unchanged when it begins, after any
\* leading white space, with the terminator; an empty or absent tail is
\* written as the terminator and a newline; any other tail is written after
\* a terminator and a newline.  In the written document the first symbol
\* after the literal that is not white space is the terminator.
C13_TerminatorSynthesis ==
    [][WriteStep =>
         /\ disk'.text = RegeneratedHead \o json_dumps(written) \o TailIfTerminated(f_tail)
         /\ Terminated(AfterLiteral(disk', written))]_vars

\* a tail with a newline before its terminator was written as it is
C13_Witness ==
    /\ f_msg = "saved"
    /\ f_tail = <<NL, ";", NL>>
    /\ AfterLiteral(disk, written) = f_tail
    /\ written.v # <<>>

-----------------------------------------------------------------------------
(* The other tabs: parse_ts_data and write_ts_data on the data file of the  *)
(* selected tab, and the values the tab's load handler returns.            *)

ListTabs == {"Diary", "Projects", "Timeline", "Skills"}
Tabs == ListTabs \cup {"Devices"}

\* the interface_key the handlers of tab t pass to write_ts_data
InterfaceKey(t) ==
    CASE t = "Diary" -> "diary"
      [] t = "Projects" -> "projects"
      [] t = "Timeline" -> "timeline"
      [] t = "Skills" -> "skills"
      [] t = "Devices" -> "devices"
      [] OTHER -> "friends"

\* the var_name the handlers of tab t pass
DataVar(t) ==
    CASE t = "Diary" -> <<"diaryData">>
      [] t = "Projects" -> <<"projectsData">>
      [] t = "Timeline" -> <<"timelineData">>
      [] t = "Skills" -> <<"skillsData">>
      [] t = "Devices" -> <<"devicesData">>
      [] OTHER -> FriendsVar

get_ts_type(key) ==
    CASE key = "diary" -> <<"DiaryItem", "[", "]">>
      [] key = "friends" -> <<"FriendItem", "[", "]">>
      [] key = "projects" -> <<"Project", "[", "]">>
      [] key = "timeline" -> <<"TimelineItem", "[", "]">>
      [] key = "skills" -> <<"Skill", "[", "]">>
      [] key = "devices" -> <<"DeviceCategory">>
      [] OTHER -> <<"any">>

\* INTERFACES.get(key, ""): the interface text interfaces.json holds for key
Interfaces(key) ==
    <<"interface", " ", get_ts_type(key)[1], " ", "{", "id", ";", "}">>

\* the text before the literal in new_content, line 205
TabHead(key, var_name) ==
    Interfaces(key) \o <<NL, EC>> \o var_name \o <<":", " ">> \o get_ts_type(key)
    \o <<" ", "=", " ">>

\* new_content of write_ts_data(root, file, DataVar(t), data, InterfaceKey(t), tail_code)
WriteTab(t, data, tail_code) ==
    TabHead(InterfaceKey(t), DataVar(t)) \o json_dumps(data) \o WrittenTail(tail_code)

\* parse_ts_data(root, file, DataVar(t)) on the file d
ParseTab(t, d) ==
    IF ~d.exists THEN NothingRead
    ELSE ReadExtracted(extract_ts_variable_value(d.text, DataVar(t)))

\* "if not data: data = []", and "data = {}" in load_devices_ui
EmptyOf(t) == IF t = "Devices" THEN JObj(<<>>) ELSE EmptyList

OrEmptyOf(t, data) == IF Truthy(data) THEN data ELSE EmptyOf(t)

LoadedTab(t, p) == [data |-> OrEmptyOf(t, p.data), tail |-> p.tail]

\* load_diary_ui, load_projects_ui, load_timeline_ui, load_skills_ui and
\* load_devices_ui on the file d: the values of the data and tail states
LoadTab(t, d) == LoadedTab(t, ParseTab(t, d))

\* lines 207-212: the files open(path, 'w') and f.write(new_content) can
\* leave.  A refused open leaves the file as it is; a write that fails after
\* the open has truncated the file leaves none or a part of the text.
FilesAfterWrite(text) ==
    CASE io = "ok" -> {[exists |-> TRUE, text |-> text]}
      [] io = "denied" -> {tab_file}
      [] OTHER -> {[exists |-> TRUE, text |-> <<>>],
                   [exists |-> TRUE, text |-> SubSeq(text, 1, Len(text) \div 2)]}

\* the value write_ts_data returns, lines 210-212: the exception is caught
WriteMessage == IF io = "ok" THEN "saved" ELSE "save failed"

\* the outputs of a handler that called write_ts_data, which left the file
\* f, reloaded u and returned msg
TabReloaded(f, u, msg) ==
    /\ tab_file' = f
    /\ tab_data' = u.data
    /\ tab_tail' = u.tail
    /\ tab_msg' = msg
    /\ raised' = FALSE
    /\ wrote' = (IF io = "ok" THEN "ok" ELSE "failed")

TabWritten(text, msg) ==
    \E f \in FilesAfterWrite(text) : TabReloaded(f, LoadTab(tab, f), msg)

\* write_ts_data(...); u = load_..._ui(root); return msg, u[0], u[1], u[2]
\* with a message of the handler's own
TabWriteAndReload(data, tail_code, msg) ==
    /\ TabWritten(WriteTab(tab, data, tail_code), msg)
    /\ written' = (IF io = "ok" THEN data ELSE written)
    /\ UNCHANGED <<tab, unique0, tail0>>

\* msg = write_ts_data(...); u = load_..._ui(root); return msg, u[0], u[1], u[2]
TabWriteAndReport(data, tail_code) == TabWriteAndReload(data, tail_code, WriteMessage)

\* return msg, gr.update(), gr.update(), gr.update()
TabMessage(msg) ==
    /\ tab_msg' = msg
    /\ Returned
    /\ UNCHANGED <<tab, tab_file, tab_data, tab_tail, unique0, tail0, written>>

\* an exception in the handler, or one value returned for several
\* outputs, which the framework rejects: no output changes
TabRaises == Raised /\ UNCHANGED <<tabVars, histVars>>

\* the refresh button of the tab
LoadTabUI(u) ==
    /\ tab_data' = u.data
    /\ tab_tail' = u.tail
    /\ Returned
    /\ UNCHANGED <<tab, tab_file, tab_msg, unique0, tail0, written>>

\* the click that ran the handler name of the selected tab
TabCalled(name) ==
    /\ op' = name
    /\ UNCHANGED <<scanVars, sessVars, ext, io, imgVars>>

-----------------------------------------------------------------------------
(* The handlers of the list tabs.  A record carries its identifying field  *)
(* and one or two of the fields the form fills; the other form fields are  *)
(* copied into the record the same way.                                    *)

Project(id, title) == JObj(<< <<<<"id">>, JStr(id)>>, <<<<"title">>, JStr(title)>> >>)
\* a diary record: images is the sequence of its image paths
DiaryItem(id, text, date, images) ==
    JObj(<< <<<<"id">>, JNum(id)>>, <<<<"content">>, JStr(text)>>,
            <<<<"date">>, JStr(date)>>,
            <<<<"images">>, JArr([x \in DOMAIN images |-> JStr(images[x])])>> >>)
Skill(id, name, cat) ==
    JObj(<< <<<<"id">>, JStr(id)>>, <<<<"name">>, JStr(name)>>,
            <<<<"category">>, JStr(cat)>> >>)

\* the labels of the type dropdown: "edu" stands for the label of
\* "education", "other" for the label of "other"
TypeOfLabel(titype) ==
    CASE titype = <<"edu">> -> <<"education">>
      [] titype = <<"other">> -> <<"other">>
      [] OTHER -> <<>>

\* lines 559-579: new_obj of save_timeline; the key "type" is set for a
\* listed label only
TimelineItem(id, title, titype) ==
    IF TypeOfLabel(titype) = <<>>
    THEN JObj(<< <<<<"id">>, JStr(id)>>, <<<<"title">>, JStr(title)>> >>)
    ELSE JObj(<< <<<<"id">>, JStr(id)>>, <<<<"title">>, JStr(title)>>,
                 <<<<"type">>, JStr(TypeOfLabel(titype))>> >>)

\* item.get(key, "")
GetOr(obj, key) == IF HasKey(obj, key) THEN Get(obj, key) ELSE JStr(<<>>)

\* the index of the first record x of data with x["id"] == idval; 0 if none
IdIndex(data, idval) ==
    Least({x \in DOMAIN data.v : Get(data.v[x], <<"id">>) = idval})

\* Python's == on two records: equal keys with equal values, in any order
PyEq(a, b) == Range(a.v) = Range(b.v)

\* a removal that takes the last element
ListRemoveLast(seq, item) == SubSeq(seq, 1, Len(seq) - 1)

\* data.remove(item): the first element equal to item goes
ListRemove(seq, item) == RemoveAt(seq, Least({x \in DOMAIN seq : PyEq(seq[x], item)}))

\* an upsert that never looks for the id
UpsertAtAppend(data, x, new_obj, repl) == Append(data.v, new_obj)

\* lines 473-487, 581-607, 691-706: append when no record has the id,
\* otherwise put repl at the index x of the first record that has it
UpsertAt(data, x, new_obj, repl) ==
    IF x = 0 THEN Append(data.v, new_obj) ELSE [data.v EXCEPT ![x] = repl]

\* the collection after the upsert, written when the bound allows the append
UpsertWrite(seq, msg) ==
    /\ Len(seq) <= MaxRecords
    /\ TabWriteAndReload(JArr(seq), tab_tail, msg)

\* lines 464-490
SaveProjectIn(data, pid, new_obj) ==
    UpsertWrite(UpsertAt(data, IdIndex(data, JStr(pid)), new_obj, new_obj), WriteMessage)

\* save_project_all(root, p_data, p_tail, pid, title, ...)
save_project_all(pid, title) ==
    /\ tab = "Projects"
    /\ SaveProjectIn(OrEmptyOf(tab, tab_data), pid, Project(pid, title))

\* lines 591-606: the record that replaces item
TimelineRepl(item, new_obj, titype) ==
    IF titype = <<>> THEN SetKey(new_obj, <<"type">>, GetOr(item, <<"type">>))
    ELSE new_obj

TimelineUpsert(data, x, new_obj, titype) ==
    UpsertWrite(UpsertAt(data, x, new_obj,
                         IF x = 0 THEN new_obj
                         ELSE TimelineRepl(data.v[x], new_obj, titype)), "saved")

SaveTimelineIn(data, tiid, title, titype) ==
    TimelineUpsert(data, IdIndex(data, JStr(tiid)), TimelineItem(tiid, title, titype), titype)

\* save_timeline(root, ti_data, ti_tail, tiid, title, desc, titype, date, ...)
save_timeline(tiid, title, titype) ==
    /\ tab = "Timeline"
    /\ IF tiid = <<>> \/ title = <<>> \/ titype = <<>>
       THEN TabMessage("required")
       ELSE SaveTimelineIn(OrEmptyOf(tab, tab_data), tiid, title, titype)

\* lines 699-706: the record that replaces item
SkillRepl(item, new_obj, cat) ==
    IF cat = <<>> THEN SetKey(new_obj, <<"category">>, Get(item, <<"category">>))
    ELSE new_obj

SkillUpsert(data, x, new_obj, cat) ==
    UpsertWrite(UpsertAt(data, x, new_obj,
                         IF x = 0 THEN new_obj ELSE SkillRepl(data.v[x], new_obj, cat)),
                "saved")

SaveSkillIn(data, sid, name, cat) ==
    SkillUpsert(data, IdIndex(data, JStr(sid)), Skill(sid, name, cat), cat)

\* save_skill(root, s_data, s_tail, sid, name, desc, icon, cat, level, ...)
save_skill(sid, name, cat) ==
    /\ tab = "Skills"
    /\ IF sid = <<>> \/ name = <<>> \/ cat = <<>>
       THEN TabMessage("required")
       ELSE SaveSkillIn(OrEmptyOf(tab, tab_data), sid, name, cat)

\* the loop and the write of the delete handlers: x is the index of the
\* first record with the id, 0 if there is none
DeleteListAt(x) ==
    IF x = 0 THEN TabMessage("not found")
    ELSE TabWriteAndReload(JArr(ListRemove(tab_data.v, tab_data.v[x])), tab_tail, "deleted")

\* delete_selected_diary, delete_selected_project, delete_selected_timeline
\* and delete_selected_skill: idval is the id of the form, falsy tells
\* whether it is empty; iterating over the data of a session that never
\* loaded raises
DeleteFromList(idval, falsy) ==
    IF falsy THEN TabMessage("none selected")
    ELSE IF tab_data = JNone THEN TabRaises
    ELSE DeleteListAt(IdIndex(tab_data, idval))

delete_selected_diary(d_id) == tab = "Diary" /\ DeleteFromList(JNum(d_id), d_id = 0)
delete_selected_project(pid) == tab = "Projects" /\ DeleteFromList(JStr(pid), pid = <<>>)
delete_selected_timeline(tiid) == tab = "Timeline" /\ DeleteFromList(JStr(tiid), tiid = <<>>)
delete_selected_skill(sid) == tab = "Skills" /\ DeleteFromList(JStr(sid), sid = <<>>)

\* the refresh button of a tab
load_tab_ui == LoadTabUI(LoadTab(tab, tab_file))

-----------------------------------------------------------------------------
(* The handlers of the Devices tab.  The catalog maps a category to its    *)
(* devices; a device carries its name and its specs, the other form fields *)
(* are copied the same way.                                                *)

Device(name, specs) ==
    JObj(<< <<<<"name">>, JStr(name)>>, <<<<"specs">>, JStr(specs)>> >>)

\* the index of the first item of items with item["name"] == name; 0 if none
NameIndex(items, name) ==
    Least({x \in DOMAIN items : Get(items[x], <<"name">>) = JStr(name)})

\* data.pop(cat)
PopKey(data, cat) == JObj(SelectSeq(data.v, LAMBDA m : m[1] # cat))

\* the number of devices of the catalog
RECURSIVE CountFrom(_, _)
CountFrom(members, x) ==
    IF x > Len(members) THEN 0 ELSE Len(members[x][2].v) + CountFrom(members, x + 1)
CountDevices(data) == CountFrom(data.v, 1)

\* line 784
WithCat(data, cat) == IF HasKey(data, cat) THEN data ELSE SetKey(data, cat, JArr(<<>>))

\* data[cat].append(item)
AppendTo(data, cat, item) == SetKey(data, cat, JArr(Append(Get(data, cat).v, item)))

\* lines 790-797: x is the index of the device found in old_cat, 0 if none
DeviceUpdated(data, old_cat, target_cat, x, new_item) ==
    IF x # 0
    THEN SetKey(data, old_cat, JArr([Get(data, old_cat).v EXCEPT ![x] = new_item]))
    ELSE AppendTo(data, target_cat, new_item)

\* lines 786-797 on the catalog that has target_cat
DevicePlaced(data, old_cat, target_cat, name, new_item, is_new) ==
    IF is_new THEN AppendTo(data, target_cat, new_item)
    ELSE DeviceUpdated(data, old_cat, target_cat,
                       IF HasKey(data, old_cat)
                       THEN NameIndex(Get(data, old_cat).v, name) ELSE 0,
                       new_item)

\* lines 799-801, when the bound allows the catalog
DeviceWrite(data) ==
    /\ CountDevices(data) <= MaxRecords
    /\ TabWriteAndReport(data, tab_tail)

\* lines 762-801
SaveDeviceIn(data, old_cat, target_cat, name, specs, is_new) ==
    IF target_cat = <<>>
    THEN /\ tab_msg' = "no category"
         /\ tab_data' = data
         /\ Returned
         /\ UNCHANGED <<tab, tab_file, tab_tail, unique0, tail0, written>>
    ELSE DeviceWrite(DevicePlaced(WithCat(data, target_cat), old_cat, target_cat,
                                  name, Device(name, specs), is_new))

\* save_device_btn(root, dev_data, dev_tail, old_cat, name, None, specs, ...,
\*                 new_cat_input, original_img, is_new)
save_device_btn(old_cat, name, specs, new_cat_input, is_new) ==
    /\ tab = "Devices"
    /\ SaveDeviceIn(OrEmptyOf(tab, tab_data), old_cat,
                    IF is_new /\ new_cat_input # <<>> THEN new_cat_input ELSE old_cat,
                    name, specs, is_new)

\* a delete that keeps every category
PrunedNever(data, cat) == data

\* a delete that drops every category it emptied, the last one too
PrunedAlways(data, cat) ==
    IF Get(data, cat).v = <<>> THEN PopKey(data, cat) ELSE data

\* lines 821-825
Pruned(data, cat) ==
    IF Get(data, cat).v = <<>> /\ Len(data.v) > 1 THEN PopKey(data, cat) ELSE data

\* lines 815-819: x is the index of the device found, 0 if none
DeviceRemoved(data, cat, x) ==
    IF x = 0 THEN data
    ELSE SetKey(data, cat, JArr(ListRemove(Get(data, cat).v, Get(data, cat).v[x])))

\* lines 827-831.  A delete that finds nothing returns one value for five
\* outputs, which the framework rejects; the handler has by then pruned the
\* catalog object it was given, and whether that object is the stored state
\* or a copy of it is not decided here.
DeviceDeleted(data, x) ==
    IF x = 0
    THEN /\ tab_data' \in {tab_data, data}
         /\ Raised
         /\ UNCHANGED <<tab, tab_file, tab_tail, tab_msg, unique0, tail0, written>>
    ELSE TabWriteAndReload(data, tab_tail, "deleted")

DeleteDeviceAt(cat, x) == DeviceDeleted(Pruned(DeviceRemoved(tab_data, cat, x), cat), x)

\* delete_selected_device(root, dev_data, dev_tail, name, cat); one value
\* returned for five outputs, data[cat] on a session that never loaded and
\* a category the catalog does not have all raise
delete_selected_device(name, cat) ==
    /\ tab = "Devices"
    /\ IF name = <<>> \/ cat = <<>> THEN TabRaises
       ELSE IF tab_data = JNone \/ ~HasKey(tab_data, cat) THEN TabRaises
       ELSE DeleteDeviceAt(cat, NameIndex(Get(tab_data, cat).v, name))

-----------------------------------------------------------------------------
(* The diary handlers that assign or look up a numeric id *)

\* the date a record gets from datetime.now(), and the one the documents
\* of the model start with
Now == <<"n">>
Earlier == <<"d">>

\* the path save_img_to_diary or shutil.move gave the uploaded image, and
\* the path of an image a record of the model starts with
Uploaded == <<"m">>
Kept == <<"k">>

\* lines 318-331, when the bounds allow the record
CreateDiaryWith(data, tail_code, new_id, text) ==
    /\ Len(data.v) < MaxRecords
    /\ new_id <= MaxId
    /\ TabWriteAndReport(JArr(Append(data.v, DiaryItem(new_id, text, Now, <<Uploaded>>))),
                         tail_code)

\* line 317
CreateDiaryIn(data, tail_code, text) ==
    CreateDiaryWith(data, tail_code, MaxIdOf(data) + 1, text)

\* lines 315-316
CreateDiaryFrom(p, text) == CreateDiaryIn(OrEmptyOf("Diary", p.data), p.tail, text)

\* create_diary_entry(root, content, mood, loc, tags, imgs): upload tells
\* whether imgs holds an image; without one len(imgs) raises for None, and
\* img_paths is read unassigned for []
create_diary_entry(text, upload) ==
    /\ tab = "Diary"
    /\ IF upload THEN CreateDiaryFrom(ParseTab(tab, tab_file), text) ELSE TabRaises

\* lines 283-300: img_paths is empty without uploads; the date is target's
SavedDiaryItem(target, d_id, text, upload) ==
    DiaryItem(d_id, text, Get(target, <<"date">>).v, IF upload THEN <<Uploaded>> ELSE <<>>)

\* a save that appends the record when no record has the id
SaveDiaryAtAppends(data, x, d_id, text, upload) ==
    IF x = 0
    THEN TabWriteAndReport(
             JArr(Append(data.v, DiaryItem(d_id, text, Now,
                                           IF upload THEN <<Uploaded>> ELSE <<>>))),
             tab_tail)
    ELSE TabWriteAndReport(
             JArr([data.v EXCEPT ![x] = SavedDiaryItem(data.v[x], d_id, text, upload)]),
             tab_tail)

\* lines 301-307: x is the index of target, 0 for None; the one value
\* returned for four outputs is rejected by the framework
SaveDiaryAt(data, x, d_id, text, upload) ==
    IF x = 0 THEN TabRaises
    ELSE TabWriteAndReport(
             JArr([data.v EXCEPT ![x] = SavedDiaryItem(data.v[x], d_id, text, upload)]),
             tab_tail)

\* lines 277-278
SaveDiaryIn(data, d_id, text, upload) ==
    SaveDiaryAt(data, IdIndex(data, JNum(d_id)), d_id, text, upload)

\* save_diary_entry(root, d_data, d_tail, d_id, content, ..., imgs): upload
\* tells whether imgs holds an image
save_diary_entry(d_id, text, upload) ==
    /\ tab = "Diary"
    /\ SaveDiaryIn(OrEmptyOf(tab, tab_data), d_id, text, upload)

-----------------------------------------------------------------------------
(* The documents a session of a tab can start from, and the values of the  *)
(* forms.                                                                  *)

FormNames == {<<"a">>, <<"b">>}
FormTexts == {<<"a">>, <<"b">>}
FormText == <<"b">>
FormNewCats == {<<>>, <<"m">>}
FormKeys == {<<>>, <<"a">>, <<"b">>}
FormTypes == {<<>>, <<"edu">>, <<"x">>}
FormCats == {<<>>, <<"k">>, <<"m">>}

\* collections with distinct ids, and one each with an id that repeats
TabCollections(t) ==
    CASE t = "Diary" ->
           {EmptyList, JArr(<<DiaryItem(1, <<"a">>, Earlier, <<Kept>>)>>),
            JArr(<<DiaryItem(2, <<"b">>, Earlier, <<>>),
                   DiaryItem(1, <<"a">>, Earlier, <<Kept>>)>>),
            JArr(<<DiaryItem(1, <<"a">>, Earlier, <<>>),
                   DiaryItem(1, <<"c">>, Earlier, <<>>)>>)}
      [] t = "Projects" ->
           {EmptyList, JArr(<<Project(<<"a">>, <<"a">>)>>),
            JArr(<<Project(<<"b">>, <<"a">>), Project(<<"a">>, <<"a">>)>>),
            JArr(<<Project(<<"a">>, <<"a">>), Project(<<"a">>, <<"c">>)>>)}
      [] t = "Timeline" ->
           {EmptyList, JArr(<<TimelineItem(<<"a">>, <<"a">>, <<"edu">>)>>),
            JArr(<<TimelineItem(<<"b">>, <<"a">>, <<"other">>),
                   TimelineItem(<<"a">>, <<"a">>, <<"edu">>)>>),
            JArr(<<TimelineItem(<<"a">>, <<"a">>, <<"edu">>),
                   TimelineItem(<<"a">>, <<"c">>, <<"edu">>)>>)}
      [] t = "Skills" ->
           {EmptyList, JArr(<<Skill(<<"a">>, <<"a">>, <<"k">>)>>),
            JArr(<<Skill(<<"b">>, <<"a">>, <<"k">>), Skill(<<"a">>, <<"a">>, <<"k">>)>>),
            JArr(<<Skill(<<"a">>, <<"a">>, <<"k">>), Skill(<<"a">>, <<"c">>, <<"k">>)>>)}
      [] OTHER ->
           {JObj(<<>>),
            JObj(<< <<<<"k">>, JArr(<<Device(<<"a">>, <<"a">>)>>)>> >>),
            JObj(<< <<<<"k">>, JArr(<<Device(<<"a">>, <<"a">>)>>)>>,
                    <<<<"m">>, JArr(<<Device(<<"b">>, <<"c">>)>>)>> >>),
            JObj(<< <<<<"k">>, JArr(<<>>)>>,
                    <<<<"m">>, JArr(<<Device(<<"b">>, <<"a">>)>>)>> >>),
            JObj(<< <<<<"m">>, JArr(<<Device(<<"a">>, <<"a">>),
                                      Device(<<"a">>, <<"c">>)>>)>> >>)}

TabTail == <<";", NL, "/", "/", " ", "c", NL>>

\* no declaration; a declaration without a literal; an unbalanced literal;
\* a literal outside the grammar
BrokenTexts(t) ==
    {<<"import", ";", NL>>,
     TabHead(InterfaceKey(t), DataVar(t)) \o <<"n", ";", NL>>,
     TabHead(InterfaceKey(t), DataVar(t)) \o <<"[", "{", DQ, "id", DQ, ":", " ", "1", "}">>,
     TabHead(InterfaceKey(t), DataVar(t)) \o <<"[", "{", "id", " ", "1", "}", "]", ";", NL>>}

TabFiles(t) ==
    {[exists |-> FALSE, text |-> <<>>]}
    \cup {[exists |-> TRUE, text |-> WriteTab(t, c, TabTail)] : c \in TabCollections(t)}
    \cup {[exists |-> TRUE, text |-> WriteTab(t, c, <<>>)] :
             c \in {d \in TabCollections(t) : Len(d.v) = 1}}
    \cup {[exists |-> TRUE, text |-> x] : x \in BrokenTexts(t)}

\* no two records of the collection have the same identifying field: id in a
\* list, name within each category of the catalog
DistinctBy(items, key) ==
    \A x, y \in DOMAIN items :
        x # y => Get(items[x], key) # Get(items[y], key)

UniqueIds(data) ==
    IF data.t = "arr" THEN DistinctBy(data.v, <<"id">>)
    ELSE IF data.t = "obj"
    THEN \A x \in DOMAIN data.v : DistinctBy(data.v[x][2].v, <<"name">>)
    ELSE TRUE

\* the Blocks of a session on one of the tabs ts, on a file system in one
\* of the conditions ios: every State holds None until its tab's load
\* handler runs
TabsStart(ts, ios) ==
    /\ IdleScan
    /\ disk = [exists |-> FALSE, text |-> <<>>]
    /\ f_data = JNone
    /\ f_tail = NoneTail
    /\ f_msg = ""
    /\ tab \in ts
    /\ tab_file \in TabFiles(tab)
    /\ tab_data = JNone
    /\ tab_tail = NoneTail
    /\ tab_msg = ""
    /\ unique0 = UniqueIds(LoadTab(tab, tab_file).data)
    /\ tail0 = LoadTab(tab, tab_file).tail
    /\ written = JNone
    /\ io \in ios
    /\ IdleCalls
    /\ IdleImages

TabsInit == TabsStart(Tabs, {"ok"})

\* the buttons of the Diary tab, lines 1150-1154
DiaryNext ==
    \/ tab = "Diary" /\ load_tab_ui /\ TabCalled("load_ui")
    \/ \E upload \in BOOLEAN :
          create_diary_entry(FormText, upload) /\ TabCalled("create_diary_entry")
    \/ \E d_id \in FormIds, upload \in BOOLEAN :
          save_diary_entry(d_id, FormText, upload) /\ TabCalled("save_diary_entry")
    \/ \E d_id \in FormIds : delete_selected_diary(d_id) /\ TabCalled("delete_selected_diary")

\* the buttons of the Projects tab, lines 1208-1212
ProjectsNext ==
    \/ tab = "Projects" /\ load_tab_ui /\ TabCalled("load_ui")
    \/ \E pid \in FormKeys, title \in FormTexts :
          save_project_all(pid, title) /\ TabCalled("save_project_all")
    \/ \E pid \in FormKeys :
          delete_selected_project(pid) /\ TabCalled("delete_selected_project")

\* the buttons of the Timeline tab, lines 1330-1333
TimelineNext ==
    \/ tab = "Timeline" /\ load_tab_ui /\ TabCalled("load_ui")
    \/ \E tiid \in FormKeys, titype \in FormTypes :
          save_timeline(tiid, FormText, titype) /\ TabCalled("save_timeline")
    \/ \E tiid \in FormKeys :
          delete_selected_timeline(tiid) /\ TabCalled("delete_selected_timeline")

\* the buttons of the Skills tab, lines 1359-1363
SkillsNext ==
    \/ tab = "Skills" /\ load_tab_ui /\ TabCalled("load_ui")
    \/ \E sid \in FormKeys, cat \in FormCats :
          save_skill(sid, FormText, cat) /\ TabCalled("save_skill")
    \/ \E sid \in FormKeys : delete_selected_skill(sid) /\ TabCalled("delete_selected_skill")

\* the buttons of the Devices tab, lines 1236-1240
DevicesNext ==
    \/ tab = "Devices" /\ load_tab_ui /\ TabCalled("load_ui")
    \/ \E old_cat \in FormCats, name \in FormNames, new_cat_input \in FormNewCats,
          is_new \in BOOLEAN :
          /\ is_new \/ new_cat_input = <<>>
          /\ save_device_btn(old_cat, name, FormText, new_cat_input, is_new)
          /\ TabCalled("save_device_btn")
    \/ \E name \in FormNames \cup {<<>>}, cat \in FormCats :
          delete_selected_device(name, cat) /\ TabCalled("delete_selected_device")

TabsNext == DiaryNext \/ ProjectsNext \/ TimelineNext \/ SkillsNext \/ DevicesNext

TabsSpec == TabsInit /\ [][TabsNext]_vars

\* a session on the Diary tab
DiaryInit == TabsStart({"Diary"}, {"ok"})
DiarySpec == DiaryInit /\ [][DiaryNext]_vars

\* a session on the Devices tab
DevicesInit == TabsStart({"Devices"}, {"ok"})
DevicesSpec == DevicesInit /\ [][DevicesNext]_vars

\* sessions on a file system that refuses the open or fails in the write
FaultInit == TabsStart(Tabs, {"denied", "full"})
FaultSpec == FaultInit /\ [][TabsNext]_vars

-----------------------------------------------------------------------------
(* C14: records stay unique by their identifying field *)

\* a session that started from a document whose records are distinct
StartedUnique == unique0

\* C14: starting from a collection whose identifying-field values are
\* pairwise distinct, after any sequence of create, save and delete
\* operations no collection - the one written, the one a session holds -
\* contains two records with the same identifying-field value (id in the
\* lists, name within a device category).
C14_Uniqueness ==
    StartedUnique =>
        /\ UniqueIds(written)
        /\ UniqueIds(tab_data)
        /\ UniqueIds(f_data)

-----------------------------------------------------------------------------
(* C15: the upsert handlers *)

UpsertTabs == {"Projects", "Timeline", "Skills"}

\* a step of save_project_all, save_timeline or save_skill that wrote
UpsertStep ==
    /\ tab \in UpsertTabs
    /\ tab_msg' = "saved"
    /\ tab_msg # "saved" \/ written' # written \/ tab_file' # tab_file

\* the records the handler was given
HeldRecords == OrEmptyOf(tab, tab_data).v

\* new is old with the record at x replaced by one of the same id
ReplacedAt(old, new, x) ==
    /\ Len(new) = Len(old)
    /\ Get(new[x], <<"id">>) = Get(old[x], <<"id">>)
    /\ \A y \in DOMAIN old : y # x => new[y] = old[y]

\* new is old with one record, of an id old does not have, added at the end
AppendedTo(old, new) ==
    /\ Len(new) = Len(old) + 1
    /\ SubSeq(new, 1, Len(old)) = old
    /\ \A y \in DOMAIN old : Get(old[y], <<"id">>) # Get(new[Len(new)], <<"id">>)

UpsertOf(old, new) == AppendedTo(old, new) \/ \E x \in DOMAIN old : ReplacedAt(old, new, x)

\* C15: an upsert replaces the record that has the given id at its index
\* and leaves every other record at its index with its content, or, when no
\* record has the id, appends the new record and leaves the existing ones
\* unchanged; the length changes by 0 or by 1, and the collection read back
\* from the written file is that sequence.
C15_UpsertOrder ==
    [][UpsertStep => UpsertOf(HeldRecords, written'.v) /\ tab_data' = written']_vars

\* the first of two records of id a was replaced, the second kept
C15_Witness ==
    /\ tab = "Projects"
    /\ tab_msg = "saved"
    /\ written = JArr(<<Project(<<"a">>, <<"b">>), Project(<<"a">>, <<"c">>)>>)

-----------------------------------------------------------------------------
(* C16: the delete handlers of the list tabs *)

\* a step of delete_selected_diary, delete_selected_project,
\* delete_selected_timeline or delete_selected_skill that wrote
DeleteStep ==
    /\ tab \in ListTabs
    /\ tab_msg' = "deleted"
    /\ tab_msg # "deleted" \/ written' # written \/ tab_file' # tab_file

\* new is old without its element x, and no element before x has x's id
FirstRemoved(old, new, x) ==
    /\ new = RemoveAt(old, x)
    /\ \A y \in 1..(x - 1) : Get(old[y], <<"id">>) # Get(old[x], <<"id">>)

\* C16: a delete removes exactly the first record whose id is the given
\* one: the sequence written is the original without that one element, all
\* other records - later ones of the same id too - keep their order and
\* content, and the collection read back from the file is that sequence.
C16_DeleteFirst ==
    [][DeleteStep =>
          /\ \E x \in DOMAIN tab_data.v : FirstRemoved(tab_data.v, written'.v, x)
          /\ tab_data' = written']_vars

\* of two diary records of id 1 the first went and the second stayed
C16_Witness ==
    /\ tab = "Diary"
    /\ tab_msg = "deleted"
    /\ written = JArr(<<DiaryItem(1, <<"c">>, Earlier, <<>>)>>)

-----------------------------------------------------------------------------
(* C17: pruning of categories by delete_selected_device *)

\* a step of delete_selected_device that wrote
DeviceDeleteStep ==
    /\ tab = "Devices"
    /\ tab_msg' = "deleted"
    /\ tab_msg # "deleted" \/ written' # written \/ tab_file' # tab_file

Categories(data) == {data.v[x][1] : x \in DOMAIN data.v}

\* the delete took the last device of cat
Emptied(old, cat, name) ==
    /\ HasKey(old, cat)
    /\ Len(Get(old, cat).v) = 1
    /\ Get(Get(old, cat).v[1], <<"name">>) = JStr(name)

\* what the catalog new must be when the last device of cat was deleted
PrunedTo(old, new, cat) ==
    IF Len(old.v) > 1
    THEN /\ ~HasKey(new, cat)
         /\ new = PopKey(old, cat)
    ELSE /\ HasKey(new, cat)
         /\ new = JObj(<< <<cat, JArr(<<>>)>> >>)

\* the delete took one device of cat and left the category with the others
OneRemoved(old, new, cat, name) ==
    /\ HasKey(old, cat)
    /\ \E x \in DOMAIN Get(old, cat).v :
          /\ Get(Get(old, cat).v[x], <<"name">>) = JStr(name)
          /\ new = SetKey(old, cat, JArr(RemoveAt(Get(old, cat).v, x)))

\* C17: when delete_selected_device removes a device and its category
\* becomes empty, the category key is removed if the catalog has more than
\* one category and is kept with an empty sequence if it is the only one;
\* a category that keeps devices stays.
C17_CategoryPruning ==
    [][DeviceDeleteStep =>
          \E cat \in FormCats, name \in FormNames :
              IF Emptied(tab_data, cat, name)
              THEN PrunedTo(tab_data, written', cat)
              ELSE OneRemoved(tab_data, written', cat, name)
                   /\ Categories(written') = Categories(tab_data)]_vars

\* {k: [a], m: [b]} minus a gave {m: [b]}
C17_Witness ==
    /\ tab = "Devices"
    /\ tab_msg = "deleted"
    /\ written = JObj(<< <<<<"m">>, JArr(<<Device(<<"b">>, <<"c">>)>>)>> >>)

\* {k: [a]} minus a gave {k: []}
C17_WitnessLast ==
    /\ tab = "Devices"
    /\ tab_msg = "deleted"
    /\ written = JObj(<< <<<<"k">>, JArr(<<>>)>> >>)

-----------------------------------------------------------------------------
(* C18: the id of a created record *)

\* a step of create_diary_entry that wrote
DiaryCreateStep ==
    /\ tab = "Diary"
    /\ op' = "create_diary_entry"
    /\ wrote' = "ok"

\* the records of the friends file
FriendsOnDisk == OrEmpty(parse_ts_data(disk).data).v

\* a step of create_friend_btn: the only friends handler that writes more
\* records than the file had
FriendCreateStep ==
    /\ tab = "Friends"
    /\ disk' # disk
    /\ Len(written'.v) > Len(FriendsOnDisk)

\* the records of the file of the selected tab
TabOnDisk == OrEmptyOf(tab, ParseTab(tab, tab_file).data).v

IdsOf(records) == {Get(records[x], <<"id">>).v : x \in DOMAIN records}

\* new is old with one record added at the end whose id is 1 for an empty
\* old, and otherwise one more than an id of old that no id of old exceeds
NewIdAssigned(old, new) ==
    /\ Len(new) = Len(old) + 1
    /\ SubSeq(new, 1, Len(old)) = old
    /\ IF old = <<>> THEN IdsOf(new) = {1}
       ELSE /\ Get(new[Len(new)], <<"id">>).v - 1 \in IdsOf(old)
            /\ \A n \in IdsOf(old) : n < Get(new[Len(new)], <<"id">>).v

\* C18: a record created in the diary or in the friends list gets the id
\* max(ids of the collection read from disk) + 1, and 1 when that
\* collection is empty, so the new id is greater than every existing id.
C18_NewId ==
    [][/\ DiaryCreateStep => NewIdAssigned(TabOnDisk, written'.v)
       /\ FriendCreateStep => NewIdAssigned(FriendsOnDisk, written'.v)]_vars

\* the diary held only the record of id 2: the created record got 3, not 2
C18_Witness ==
    /\ tab = "Diary"
    /\ op = "create_diary_entry"
    /\ wrote = "ok"
    /\ Len(written.v) = 2
    /\ Get(written.v[1], <<"id">>) = JNum(2)
    /\ Get(written.v[2], <<"id">>) = JNum(3)

\* the same in the friends list
C18_WitnessFriends ==
    /\ tab = "Friends"
    /\ f_msg = "saved"
    /\ Len(written.v) = 2
    /\ Get(written.v[1], <<"id">>) = JNum(2)
    /\ Get(written.v[2], <<"id">>) = JNum(3)

-----------------------------------------------------------------------------
(* C19: the collection an edit starts from *)

\* a step of a handler of the selected tab that wrote the file
TabWriteStep ==
    /\ tab \in Tabs
    /\ tab_file' # tab_file \/ written' # written

\* the collection in the file of the selected tab
TabCollectionOnDisk == OrEmptyOf(tab, ParseTab(tab, tab_file).data)

\* C19: every edit operation works on the current document: the collection
\* it mutates and writes is the one parsed from the file at the moment of
\* the operation, not an earlier or never-loaded session value.
C19_WorksOnCurrentDocument ==
    [][TabWriteStep => OrEmptyOf(tab, tab_data) = TabCollectionOnDisk
                       \/ DiaryCreateStep]_vars

-----------------------------------------------------------------------------
(* C20: what a load gives when the file cannot be read *)

\* the file is missing
MissingFile == [exists |-> FALSE, text |-> <<>>]

\* the failure cases: the file is missing, has no declaration, has a
\* declaration without a bracketed literal, has an unbalanced literal, has
\* a literal outside the grammar
FailureFiles(t) == {MissingFile} \cup {[exists |-> TRUE, text |-> x] : x \in BrokenTexts(t)}

\* the grammar error among them
GrammarErrorFile(t) ==
    [exists |-> TRUE,
     text |-> TabHead(InterfaceKey(t), DataVar(t))
              \o <<"[", "{", "id", " ", "1", "}", "]", ";", NL>>]

\* a step of the load handler in a session that had not loaded
FirstLoadStep ==
    /\ tab \in Tabs
    /\ tab_file' = tab_file
    /\ tab_tail = NoneTail
    /\ tab_tail' # NoneTail

\* C20: in every failure case parse_ts_data returns the empty collection
\* with an empty tail, and the load handler presents an empty collection:
\* [] in the list tabs, {} for the device catalog.
C20_Fallback ==
    [][FirstLoadStep /\ tab_file \in FailureFiles(tab) =>
          /\ ParseTab(tab, tab_file) = [data |-> JArr(<<>>), tail |-> <<>>]
          /\ tab_data' = (IF tab = "Devices" THEN JObj(<<>>) ELSE JArr(<<>>))
          /\ tab_tail' = <<>>]_vars

\* the device catalog loaded from a file whose literal is outside the grammar
C20_Witness ==
    /\ tab = "Devices"
    /\ tab_file = GrammarErrorFile(tab)
    /\ tab_data = JObj(<<>>)
    /\ tab_tail = <<>>

-----------------------------------------------------------------------------
(* save_img_to_diary, lines 234-247, one step per statement of its loops *)

\* the suffix f"_{i}" the loop appends to the name; i is 0 (line 240) and no
\* statement of the loop assigns it again
Suffix0 == <<"_0">>

\* the base names (without extension) of the files the user uploads
UploadNames == {<<"p">>, <<"q">>}

\* the most files one call uploads
MaxUploads == 3

UploadLists == UNION {[1..n -> UploadNames] : n \in 0..MaxUploads}

\* the diary image folders the call may find
ImageFolders == SUBSET {<<"p">>, <<"p">> \o Suffix0, <<"q">>}

ImageInit ==
    /\ IdleScan
    /\ disk = [exists |-> FALSE, text |-> <<>>]
    /\ f_data = JNone
    /\ f_tail = NoneTail
    /\ f_msg = ""
    /\ tail0 = [ok |-> FALSE, tail |-> <<>>]
    /\ written = JNone
    /\ tab = "Diary"
    /\ tab_file = [exists |-> FALSE, text |-> <<>>]
    /\ tab_data = JNone
    /\ tab_tail = NoneTail
    /\ tab_msg = ""
    /\ unique0 = TRUE
    /\ io = "ok"
    /\ IdleCalls
    /\ folder \in ImageFolders
    /\ imgs \in UploadLists
    /\ dest = <<>>
    /\ img_paths = <<>>
    /\ img_pc = "idle"

ImageStep == UNCHANGED <<scanVars, sessVars, histVars, tabVars, callVars, io>>

\* lines 235-236: img_paths = []
ImgEnter ==
    /\ img_pc = "idle"
    /\ img_paths' = <<>>
    /\ img_pc' = "for"
    /\ UNCHANGED <<folder, imgs, dest>>
    /\ ImageStep

\* lines 237-240: the next img of the for loop, dest = name + suffix, i = 0
ImgFor ==
    /\ img_pc = "for"
    /\ imgs # <<>>
    /\ dest' = Head(imgs)
    /\ img_pc' = "while"
    /\ UNCHANGED <<folder, imgs, img_paths>>
    /\ ImageStep

\* lines 241-242: while os.path.exists(dest): dest = f"{name}_{i}{suffix}"
ImgWhile ==
    /\ img_pc = "while"
    /\ IF dest \in folder
          THEN dest' = Head(imgs) \o Suffix0 /\ img_pc' = "while"
          ELSE dest' = dest /\ img_pc' = "copy"
    /\ UNCHANGED <<folder, imgs, img_paths>>
    /\ ImageStep

\* lines 244-245: shutil.copy(img.name, dest); img_paths.append(...)
ImgCopy ==
    /\ img_pc = "copy"
    /\ folder' = folder \cup {dest}
    /\ img_paths' = Append(img_paths, dest)
    /\ imgs' = Tail(imgs)
    /\ img_pc' = "for"
    /\ UNCHANGED dest
    /\ ImageStep

\* line 247: return img_paths
ImgReturn ==
    /\ img_pc = "for"
    /\ imgs = <<>>
    /\ img_pc' = "done"
    /\ UNCHANGED <<folder, imgs, dest, img_paths>>
    /\ ImageStep

ImageNext ==
    \/ ImgEnter
    \/ ImgFor
    \/ ImgWhile
    \/ ImgCopy
    \/ ImgReturn

\* the interpreter runs the next statement of a call that has not returned
ImageSpec == ImageInit /\ [][ImageNext]_vars /\ WF_vars(ImageNext)

-----------------------------------------------------------------------------
(* The friends file edited outside the session between its clicks *)

\* what another session or an editor leaves in src/data/friends.ts
ExternalTexts ==
    {write_ts_data(JArr(<<Friend(1, <<"d">>)>>), <<";", NL>>),
     write_ts_data(JArr(<<Friend(1, <<"a">>), Friend(3, <<"d">>)>>),
                   <<";", NL, "/", "/", " ", "d", NL>>)}

\* the file is replaced while no handler of the session runs
ExternalEdit ==
    /\ \E t \in ExternalTexts :
          /\ disk.text # t
          /\ disk' = [exists |-> TRUE, text |-> t]
    /\ ext' = "pending"
    /\ op' = ""
    /\ raised' = FALSE
    /\ wrote' = "none"
    /\ UNCHANGED <<f_data, f_tail, f_msg, histVars, scanVars, tabVars, io, imgVars>>

\* the documents the shared sessions start from: written by the program
SharedTexts ==
    {WrittenHead \o l \o t :
        l \in WrittenLiterals, t \in {<<";", NL, "/", "/", " ", "c", NL>>}}

SharedInit ==
    /\ Init
    /\ disk.text \in SharedTexts

SharedNext == Next \/ ExternalEdit

SharedSpec == SharedInit /\ [][SharedNext]_vars

-----------------------------------------------------------------------------
(* A session that works in the Friends tab or in the Diary tab *)

UpdateInit == Init \/ DiaryInit

UpdateNext ==
    \/ tab = "Friends" /\ Next
    \/ DiaryNext

UpdateSpec == UpdateInit /\ [][UpdateNext]_vars

-----------------------------------------------------------------------------
(* The scanner under the interpreter's scheduling *)

\* a call that has not returned runs its next loop iteration
ScanFairSpec == ScanInit /\ [][ScanNext]_vars /\ WF_vars(ScanNext)

-----------------------------------------------------------------------------
(* C21: an I/O error in write_ts_data *)

\* a step of a handler whose call of write_ts_data met an I/O error
WriteFailedStep ==
    /\ io # "ok"
    /\ wrote' = "failed"

\* C21: an I/O error raised while the document is written (permission
\* denied, disk full) propagates out of write_ts_data to its caller: the
\* handler that called it ends in that exception.
C21_IOErrorPropagates == [][WriteFailedStep => raised']_vars

-----------------------------------------------------------------------------
(* C25: the message after a write that failed *)

\* the messages that report a save or a delete as done: "成功保存 ...",
\* "已保存ID为...", "删除了..."
SuccessMessages == {"saved", "deleted"}

\* a step of a handler that returned a message reporting success
ReportsSuccess ==
    /\ op' # ""
    /\ ~raised'
    /\ wrote' # "none"
    /\ tab_msg' \in SuccessMessages

\* C25: a handler reports a save or a delete as done only if the file write
\* succeeded; when write_ts_data fails the message reports the failure.
C25_SuccessOnlyIfWritten == [][ReportsSuccess => wrote' = "ok"]_vars


-----------------------------------------------------------------------------
(* C22: termination of save_img_to_diary *)

\* C22: every handler terminates; in particular save_img_to_diary, called by
\* create_diary_entry, returns for every image folder, also when the
\* destination name and its _0 variant both exist in the folder.
C22_ImageSaveTerminates == (img_pc = "idle") ~> (img_pc = "done")

-----------------------------------------------------------------------------
(* C23: last write wins *)

\* a save or a delete that wrote the file after it was edited outside the
\* session and before the session loaded it again
OverwriteStep ==
    /\ ext = "pending"
    /\ op' \in {"save_friend_btn", "delete_selected_friend"}
    /\ wrote' = "ok"

\* the collections one save or one delete makes of the session's collection
SessionEdits(data) ==
    {JArr([data.v EXCEPT ![x] = SetKey(@, <<"title">>, JStr(title))]) :
        x \in DOMAIN data.v, title \in FormTitles}
    \cup {JArr(RemoveAt(data.v, x)) : x \in DOMAIN data.v}

\* C23: last write wins.  A save or a delete that follows an edit made to the
\* file outside the session writes the whole document from the session's
\* collection and tail, with no conflict check: the file afterwards is the
\* serialization of the session's edited collection, and nothing of the
\* intervening edit remains.
C23_LastWriteWins ==
    [][OverwriteStep =>
          \E c \in SessionEdits(OrEmpty(f_data)) :
              disk' = [exists |-> TRUE, text |-> write_ts_data(c, f_tail)]]_vars

\* a save overwrote the external document that held the record of id 3
C23_Witness ==
    /\ ext = "lost"
    /\ op = "save_friend_btn"
    /\ wrote = "ok"
    /\ Len(written.v) = 1
    /\ disk.text = write_ts_data(written, f_tail)
    /\ disk.text \notin ExternalTexts

-----------------------------------------------------------------------------
(* C24: a delete that finds no record *)

DeleteHandlers ==
    {"delete_selected_diary", "delete_selected_project", "delete_selected_timeline",
     "delete_selected_skill", "delete_selected_device"}

\* a delete handler that ended without calling write_ts_data: nothing was
\* selected, or no record has the id or the name given
DeleteWithoutWrite ==
    /\ op' \in DeleteHandlers
    /\ wrote' = "none"

\* C24: a delete whose target is not found is a no-op: the session's
\* collection is left exactly as it was and the file is not written.
C24_DeleteNotFoundNoOp ==
    [][DeleteWithoutWrite => tab_data' = tab_data /\ tab_file' = tab_file]_vars

\* C24 for the handlers of the list tabs alone
ListDeleteNotFoundNoOp ==
    [][DeleteWithoutWrite /\ tab # "Devices" =>
          tab_data' = tab_data /\ tab_file' = tab_file]_vars

-----------------------------------------------------------------------------
(* C26: the tail over repeated write and re-read cycles *)

\* a step that calls parse_ts_data on the document written last
ReadStep == f_msg = "saved" /\ f_msg' = "read"

\* the tails the claim allows after the first cycle from the tail t
NormalizedTails(t) ==
    IF t = NoneTail THEN {<<";", NL>>}
    ELSE IF t = <<>> THEN {t, <<";", NL>>}
    ELSE {t, <<";", NL>> \o t}

\* the first cycle ends in one of the allowed tails, a further cycle in the
\* tail it began with, and a further write leaves the document as it is
TailStableStep ==
    /\ ReadStep /\ f_data = JNone => f_tail' \in NormalizedTails(f_tail)
    /\ ReadStep /\ f_data # JNone => f_tail' = f_tail
    /\ WriteStep /\ disk.exists => disk' = disk

\* C26: tail normalization is stable.  After one write and re-read the
\* extracted tail is the original tail, or the terminator and a newline for
\* an empty original, or the original after a terminator and a newline;
\* every further cycle with the same collection extracts the same tail and
\* writes the same document text.
C26_TailStable == [][TailStableStep]_vars

\* the collection was, or will be, read back as it was written
ReadsBack == parse_ts_data([exists |-> TRUE, text |-> write_ts_data(written, f_tail)]).data = written

\* C26 for the collections that the reader returns as they were written
TailStableIfReadBack == [][ReadsBack => TailStableStep]_vars

-----------------------------------------------------------------------------
(* C27: what save_diary_entry leaves alone *)

\* a step of save_diary_entry that wrote the collection written'
DiarySaveStep ==
    /\ tab = "Diary"
    /\ op' = "save_diary_entry"
    /\ wrote' = "ok"

\* new is old with the record at x edited: id and date as before, and the
\* other records as before
EditedAt(old, new, x) ==
    /\ Get(new[x], <<"id">>) = Get(old[x], <<"id">>)
    /\ Get(new[x], <<"date">>) = Get(old[x], <<"date">>)
    /\ \A y \in DOMAIN old : y # x => new[y] = old[y]

\* the images of the record at x are those it had, or the ones uploaded
ImagesKeptAt(old, new, x) ==
    \/ Get(new[x], <<"images">>) = Get(old[x], <<"images">>)
    \/ Get(new[x], <<"images">>) = JArr(<<JStr(Uploaded)>>)

\* C27: save_diary_entry changes only the fields edited in the form: the
\* record keeps its id, its date and its place in the sequence, keeps its
\* images when no image is uploaded, and every other record is unchanged.
C27_SaveDiaryFrame ==
    [][DiarySaveStep =>
          /\ Len(written'.v) = Len(tab_data.v)
          /\ \E x \in DOMAIN tab_data.v :
                /\ EditedAt(tab_data.v, written'.v, x)
                /\ ImagesKeptAt(tab_data.v, written'.v, x)]_vars

\* C27 without its clause on the images
SaveDiaryKeepsRest ==
    [][DiarySaveStep =>
          /\ Len(written'.v) = Len(tab_data.v)
          /\ \E x \in DOMAIN tab_data.v : EditedAt(tab_data.v, written'.v, x)]_vars

-----------------------------------------------------------------------------
(* C28: create_diary_entry without images *)

\* a call of create_diary_entry whose imgs holds no image
CreateWithoutImages ==
    /\ op' = "create_diary_entry"
    /\ create_diary_entry(FormText, FALSE)

\* C28: create_diary_entry called with no uploaded image completes normally:
\* it appends one record with the id max + 1 and an empty images list,
\* writes the document and returns the collection reloaded from it.
C28_CreateWithoutImages ==
    [][CreateWithoutImages =>
          /\ ~raised'
          /\ wrote' = "ok"
          /\ written' = JArr(Append(TabOnDisk, DiaryItem(MaxIdOf(JArr(TabOnDisk)) + 1,
                                                         FormText, Now, <<>>)))
          /\ tab_data' = written']_vars

-----------------------------------------------------------------------------
(* C29: the two saves that only update *)

\* new holds, place by place, records of the ids of old
SameIds(old, new) ==
    /\ Len(new) = Len(old)
    /\ \A x \in DOMAIN old : Get(new[x], <<"id">>) = Get(old[x], <<"id">>)

\* a step of save_diary_entry
DiarySaveCall == tab = "Diary" /\ op' = "save_diary_entry"

\* a step of save_friend_btn
FriendSaveCall == tab = "Friends" /\ op' = "save_friend_btn"

\* C29: save_diary_entry and save_friend_btn update only existing records.
\* They never append: the collection they write has the length, and place by
\* place the ids, of the session's collection; and when no record has the
\* given id they write nothing and leave the file and the collection as
\* they were.
C29_UpdateOnly ==
    [][/\ DiarySaveCall =>
             IF wrote' = "none"
             THEN tab_file' = tab_file /\ tab_data' = tab_data
             ELSE SameIds(OrEmptyOf(tab, tab_data).v, written'.v)
       /\ FriendSaveCall =>
             IF wrote' = "none"
             THEN disk' = disk /\ OrEmpty(f_data') = OrEmpty(f_data)
             ELSE SameIds(OrEmpty(f_data).v, written'.v)]_vars

\* save_diary_entry was given an id that no record of the loaded diary has
C29_Witness ==
    /\ op = "save_diary_entry"
    /\ raised
    /\ wrote = "none"
    /\ tab_data # JNone
    /\ Len(tab_data.v) = 2
    /\ written = JNone

\* save_friend_btn replaced a record of a list of two
C29_WitnessFriends ==
    /\ op = "save_friend_btn"
    /\ wrote = "ok"
    /\ Len(written.v) = 2

-----------------------------------------------------------------------------
(* C30: the last category of the device catalog *)

\* a step of a device handler on a catalog that has a category
DeviceEditStep ==
    /\ tab = "Devices"
    /\ op' \in {"save_device_btn", "delete_selected_device"}
    /\ tab_data # JNone
    /\ Categories(tab_data) # {}

\* C30: the device catalog never loses its last category.  From a catalog
\* with at least one category, any create, save or delete of a device
\* leaves a session catalog with at least one category, and the catalog it
\* writes has at least one category.
C30_KeepsLastCategory ==
    [][DeviceEditStep =>
          /\ tab_data' # JNone
          /\ Categories(tab_data') # {}
          /\ wrote' = "ok" => Categories(written') # {}]_vars

\* the only device of the only category was deleted and the category stayed
C30_Witness ==
    /\ tab = "Devices"
    /\ op = "delete_selected_device"
    /\ wrote = "ok"
    /\ Categories(written) = {<<"k">>}
    /\ Get(written, <<"k">>) = EmptyList
    /\ tab_data = written

-----------------------------------------------------------------------------
(* C31: the kind of the bracket that ends the literal *)

\* the closing bracket of the kind of the opening bracket o
CloserOf(o) == IF o = "[" THEN "]" ELSE "}"

\* the scan returned a literal
ScanMatched == pc = "done" /\ result.ok

\* C31: the bracket scan pairs brackets by kind.  The closing bracket that
\* ends the literal is of the kind of the literal's opening bracket, "]" for
\* "[" and "}" for "{"; a closer of the other kind does not end the scan in a
\* match.
C31_PairsByKind ==
    ScanMatched =>
        result.data_str[Len(result.data_str)] = CloserOf(result.data_str[1])

-----------------------------------------------------------------------------
(* C32: termination of the scan *)

\* a step that runs one iteration of the while loop of lines 105-162
IterationStep == pc = "scan" /\ i <= Len(content)

\* the iteration returned, or moved the index forward and at most one
\* position past the end of the document
IndexAdvances ==
    \/ pc' = "done"
    \/ i' > i /\ i' <= Len(content) + 1

\* C32: the scan always terminates.  In every state (normal, line comment,
\* block comment, string) an iteration of the loop returns or strictly
\* increases the index i, so the loop runs at most len(content) times, and
\* extract_ts_variable_value returns for every document.
C32_ScanTerminates ==
    /\ [][IterationStep => IndexAdvances]_vars
    /\ <>(pc = "done")

\* the scan opened a block comment with the last two characters of the
\* document and left the loop with the index one past the end
C32_Witness ==
    /\ pc = "done"
    /\ ~result.ok
    /\ in_block_comment
    /\ i = Len(content) + 1
    /\ At(content, Len(content) - 1) = "/"
    /\ At(content, Len(content)) = "*"
====
